---------------------------- MODULE Spec2Model ----------------------------
(***************************************************************************)
(* Long-distance water-transport simulator (ADesigner).                    *)
(*                                                                         *)
(* The model follows src/App.tsx (the single-chain simulator) and          *)
(* src/unnamed/part_000 (the topology-canvas variant of the same App).     *)
(*                                                                         *)
(* Numbers.  The program computes in IEEE doubles.  The model is a         *)
(* fixed-point image of it: every level (m), flow (m3/s), integral and     *)
(* error is an integer count of 1/Milli units, every time is an integer    *)
(* count of milliseconds, every frequency an integer count of mHz, and a   *)
(* quotient is rounded to the nearest unit (DivR).  Math.random() is a     *)
(* nondeterministic draw, in thousandths, from a small set.                *)
(***************************************************************************)
EXTENDS Integers, Sequences, FiniteSets, TLC

(***************************************************************************)
(* Fixed-point resolution and arithmetic helpers                           *)
(***************************************************************************)
Milli == 1000

Abs(x) == IF x < 0 THEN -x ELSE x

Sign(x) == IF x > 0 THEN 1 ELSE IF x < 0 THEN -1 ELSE 0

Max2(a, b) == IF a >= b THEN a ELSE b

Min2(a, b) == IF a <= b THEN a ELSE b

\* a / b rounded to the nearest integer (b > 0)
DivR(a, b) == (2 * a + b) \div (2 * b)

\* a % b of JavaScript for a >= 0, b > 0
JsMod(a, b) == a % b

RECURSIVE SqrtSearch(_, _, _)
SqrtSearch(n, lo, hi) ==
  IF lo >= hi THEN lo
  ELSE LET mid == (lo + hi + 1) \div 2
       IN  IF mid * mid <= n THEN SqrtSearch(n, mid, hi)
           ELSE SqrtSearch(n, lo, mid - 1)

\* Math.sqrt of a level given in 1/Milli units, result in 1/Milli units:
\* sqrt(x / Milli) * Milli = sqrt(x * Milli)
MathSqrt(x) == SqrtSearch(x * Milli, 0, 46340)

(***************************************************************************)
(* Constants of src/App.tsx                                                *)
(***************************************************************************)
DT == 100

PIPE_DELAY_SECONDS == 5000

BUFFER_SIZE == DivR(PIPE_DELAY_SECONDS, DT)

HISTORY_SECONDS == 60000

MAX_HISTORY == DivR(HISTORY_SECONDS, DT)

ParadigmTypes == {"TRADITIONAL", "IMPROVED", "MODERN"}

TankArea(p) ==
  CASE p = "TRADITIONAL" -> 200
    [] p = "IMPROVED"    -> 80
    [] p = "MODERN"      -> 15

Algorithm(p) ==
  CASE p = "TRADITIONAL" -> "PID"
    [] p = "IMPROVED"    -> "SMITH"
    [] p = "MODERN"      -> "MPC"

DefaultParadigm == "IMPROVED"

InitialLevel == 295000

InitialDemandPattern ==
  [type |-> "STEP", base |-> 50000, amplitude |-> 100000, frequency |-> 100,
   active |-> TRUE]

InitialSetpointPattern ==
  [type |-> "CONSTANT", base |-> 295000, amplitude |-> 0, frequency |-> 0,
   active |-> TRUE]

InitialFaults ==
  [leakage        |-> [active |-> FALSE, value |-> 0],
   pumpEfficiency |-> [active |-> FALSE, value |-> 0],
   sensorDrift    |-> [active |-> FALSE, value |-> 0]]

FaultNames == {"leakage", "pumpEfficiency", "sensorDrift"}

(***************************************************************************)
(* Disturbance generator                                                   *)
(***************************************************************************)
\* Math.sin(2*PI*q) for a phase q given in thousandths of a turn, result in
\* thousandths (Bhaskara's rational approximation, exact at the zeros and
\* the extrema).
SinTurn(q) ==
  LET p == JsMod(q, 1000)
      h == IF p < 500 THEN p ELSE p - 500
      s == DivR(16 * h * (500 - h) * 1000, 5 * 250000 - 4 * h * (500 - h))
  IN  IF p < 500 THEN s ELSE -s

\* The waveform types whose value draws on Math.random()
RandomTypes == {"NOISE", "RANDOM_WALK"}

\* an evaluation that ignores the waveform
BaseOnly(t, config, rnd) == config.base

\* a period floored at 1 Hz instead of 0.001 Hz
PeriodFlooredAtOneHertz(frequency) == DivR(1000000, Max2(1000, frequency))

\* period = 1 / Math.max(0.001, frequency), in ms for a frequency in mHz
Period(frequency) == DivR(1000000, Max2(1, frequency))

\* getDisturbanceValue(t, config); rnd is the value Math.random() returns
\* (thousandths) where the waveform draws one.
getDisturbanceValue(t, config, rnd) ==
  LET base      == config.base
      amplitude == config.amplitude
      frequency == config.frequency
      period    == Period(frequency)
      localT    == JsMod(t, period)
      frac      == DivR(localT * 1000, period)
      turn      == JsMod(DivR(JsMod(t, 1000000) * frequency, 1000), 1000)
  IN  CASE config.type = "CONSTANT" -> base
        [] config.type = "STEP" ->
             IF 2 * localT < period THEN base ELSE base + amplitude
        [] config.type = "RAMP" -> base + DivR(amplitude * frac, 1000)
        [] config.type = "SINE" -> base + DivR(amplitude * SinTurn(turn), 1000)
        [] config.type = "SQUARE" -> base + amplitude * Sign(SinTurn(turn))
        [] config.type = "TRIANGLE" ->
             base + DivR(amplitude * (2 * Abs(2 * frac - 1000) - 1000), 1000)
        [] config.type = "SAWTOOTH" ->
             base + DivR(amplitude * (2 * frac - 1000), 1000)
        [] config.type = "PULSE" ->
             IF 10 * localT < period THEN base + amplitude ELSE base
        [] config.type = "NOISE" -> base + DivR((rnd - 500) * amplitude, 1000)
        [] config.type = "RANDOM_WALK" ->
             base
             + DivR(amplitude * SinTurn(JsMod(DivR(JsMod(t, 62832) * 1000, 62832), 1000)), 1000)
             + DivR((rnd - 500) * 5 * Milli, 1000)
        [] config.type = "BURST" ->
             IF JsMod(t, 20000) > 18000 THEN base + 2 * amplitude ELSE base
        [] OTHER -> base


(***************************************************************************)
(* State of the App component (src/App.tsx)                                *)
(***************************************************************************)
VARIABLES
  variant,                \* the component mounted: "App" (src/App.tsx) or
                          \* "Topology" (src/unnamed/part_000)
  nodes,                  \* useState of the topology variant: the canvas nodes
  deployedParadigm,       \* useState: type of the deployed DesignParadigm
  time,                   \* useState: simulation time (ms)
  isRunning,              \* useState
  history,                \* useState: telemetry records
  activeDemandPattern,    \* useState: DisturbanceConfig driving the demand
  activeSetpointPattern,  \* useState: DisturbanceConfig driving the setpoint
  disturbanceScope,       \* useState: "DEMAND" | "TARGET"
  draftDisturbance,       \* useState: DisturbanceConfig being edited
  plans,                  \* useState: sequence of PlanStep
  planDelay,              \* useState (ms)
  faults,                 \* useState: FaultState
  pipeBufferRef,          \* useRef: the transport delay line
  tankLevelRef,           \* useRef: true tank level
  smithStateRef,          \* useRef: {modelLevel, delayedLevel}
  integralRef,            \* useRef
  lastErrorRef,           \* useRef
  mpcStateRef,            \* useRef: {lastOut}
  loopTime,               \* the value of `time` captured by the interval closure
  messages,               \* useState: the chat messages
  isStreaming,            \* useState
  requests,               \* the handleSendMessage calls awaiting the assistant
  clock,                  \* Date.now(): the source of plan ids
  probe,                  \* the locals of the latest tick (observation only)
  applied,                \* per plan id: number of executePlan calls (observation only)
  opsLeft,                \* user operations the run may still take (bound)
  ticksLeft               \* ticks the run may still take (bound)

vars ==
  <<variant, nodes, deployedParadigm, time, isRunning, history, activeDemandPattern,
    activeSetpointPattern, disturbanceScope, draftDisturbance, plans, planDelay,
    faults, pipeBufferRef, tankLevelRef, smithStateRef, integralRef,
    lastErrorRef, mpcStateRef, loopTime, messages, isStreaming, requests,
    clock, probe, applied, opsLeft, ticksLeft>>

\* the refs the simulation engine owns
simRefs ==
  <<pipeBufferRef, tankLevelRef, smithStateRef, integralRef, lastErrorRef,
    mpcStateRef>>

\* the state of the assistant panel
chatState == <<messages, isStreaming, requests>>

NoProbe ==
  [kind |-> "none", nextT |-> 0, demand |-> 0, target |-> 0, sensed |-> 0,
   raw |-> 0, pumpOutput |-> 0, tankInflow |-> 0, levelBefore |-> 0,
   area |-> 0, fired |-> {}, order |-> <<>>, leak |-> 0,
   faults |-> InitialFaults]

(***************************************************************************)
(* Simulation engine: physics                                              *)
(***************************************************************************)
\* a delay line read at the wrong end: the sample just pushed
PipeShiftNewest(buffer) == IF Len(buffer) = 0 THEN 0 ELSE buffer[Len(buffer)]

\* buffer.shift() || 0
PipeShift(buffer) == IF Len(buffer) = 0 THEN 0 ELSE Head(buffer)

\* the buffer after shift() and push(pumpInflow)
PipePush(buffer, pumpInflow) ==
  Append(IF Len(buffer) = 0 THEN buffer ELSE Tail(buffer), pumpInflow)

\* a leak that flows whether or not the fault is switched on
LeakFlowAlways(fs, level) ==
  DivR(fs.leakage.value * MathSqrt(Max2(0, level)), 10)

\* Fault: Leakage (Q = k * sqrt(H)); 0 when the fault is not active
LeakFlow(fs, level) ==
  IF fs.leakage.active
  THEN DivR(fs.leakage.value * MathSqrt(Max2(0, level)), 10)
  ELSE 0

\* dLevel = (netFlow * DT) / area
LevelStep(netFlow, area) == DivR(netFlow * DT, 1000 * area)

\* the integration without its floor
ClampLevelUnclamped(level, dLevel) == level + dLevel

\* tankLevelRef.current = Math.max(0, tankLevelRef.current + dLevel)
ClampLevel(level, dLevel) == Max2(0, level + dLevel)

\* a physics step that feeds the pipe the previous tick's output again
updatePhysicsStale(pumpInflow, demandOutflow) ==
  LET tankInflow == PipeShift(pipeBufferRef)
      leak       == LeakFlow(faults, tankLevelRef)
      netFlow    == tankInflow - demandOutflow - leak
      dLevel     == LevelStep(netFlow, TankArea(deployedParadigm))
  IN  [buffer     |-> PipePush(pipeBufferRef, PipeShiftNewest(pipeBufferRef)),
       level      |-> ClampLevel(tankLevelRef, dLevel),
       tankInflow |-> tankInflow,
       leak       |-> leak]

\* updatePhysics(pumpInflow, demandOutflow): the new buffer, the new level,
\* the tank inflow it consumed and the leak it subtracted
updatePhysics(pumpInflow, demandOutflow) ==
  LET tankInflow == PipeShift(pipeBufferRef)
      leak       == LeakFlow(faults, tankLevelRef)
      netFlow    == tankInflow - demandOutflow - leak
      dLevel     == LevelStep(netFlow, TankArea(deployedParadigm))
  IN  [buffer     |-> PipePush(pipeBufferRef, pumpInflow),
       level      |-> ClampLevel(tankLevelRef, dLevel),
       tankInflow |-> tankInflow,
       leak       |-> leak]

(***************************************************************************)
(* Simulation engine: control                                              *)
(***************************************************************************)
\* a gain given in tenths applied to x
Gain(k10, x) == DivR(k10 * x, 10)

\* the accumulator without the anti-windup
AntiWindupOff(i) == i

\* Anti-windup: if (Math.abs(i) > 500) i = Math.sign(i) * 500
AntiWindup(i) == IF Abs(i) > 500 * Milli THEN Sign(i) * 500 * Milli ELSE i

\* integralRef.current += error * DT, then the anti-windup
PidIntegral(integral, error) == AntiWindup(integral + DivR(error * DT, 1000))

\* the conservative gain whatever the tank
PidKpConservative(area) == 20

\* Kp = tankArea > 100 ? 5.0 : 2.0 (tenths)
PidKp(area) == IF area > 100 THEN 50 ELSE 20

\* Kp * error + Ki * integral + Kd * derivative + 50
PidOutput(area, error, integral, lastError) ==
  LET derivative == DivR((error - lastError) * 1000, DT)
  IN  Gain(PidKp(area), error) + Gain(5, integral) + Gain(1, derivative)
      + 50 * Milli

\* smithStateRef.current.modelLevel += ((lastOut - demand) * DT) / modelArea
SmithModel(modelLevel, lastOut, demand, area) ==
  modelLevel + DivR((lastOut - demand) * DT, 1000 * area)

\* a Smith law that acts on the predicted error alone
SmithOutputOnModel(target, level, modelLevel) ==
  DivR(40 * (target - modelLevel), 10) + 50 * Milli

\* Kp * (predError - mismatch) + 50 with Kp = 4.0
SmithOutput(target, level, modelLevel) ==
  LET predError == target - modelLevel
      mismatch  == level - modelLevel
  IN  Gain(40, predError - mismatch) + 50 * Milli

\* the MPC lookahead: iterations i .. horizon-1 of the loop; t0 is the `time`
\* the closure holds, output the value of `output` when the loop runs (0)
RECURSIVE MpcLookahead(_, _, _, _, _, _, _, _)
MpcLookahead(i, horizon, predictedLevel, buffer, t0, pattern, area, rnd) ==
  IF i >= horizon THEN predictedLevel
  ELSE LET futureIn     == IF i < Len(buffer) THEN buffer[i + 1] ELSE 0
           futureT      == t0 + i * DT
           futureDemand == getDisturbanceValue(futureT, pattern, rnd)
       IN  MpcLookahead(i + 1, horizon,
                        predictedLevel
                          + DivR((futureIn - futureDemand) * DT, 1000 * area),
                        buffer, t0, pattern, area, rnd)

PredictionHorizon == 50

\* output = lastOut + futureError * 2.0
MpcOutput(target, level, rnd) ==
  LET predictedLevel ==
        MpcLookahead(0, PredictionHorizon, level, pipeBufferRef, loopTime,
                     activeDemandPattern, TankArea(deployedParadigm), rnd)
      futureError == target - predictedLevel
  IN  mpcStateRef.lastOut + Gain(20, futureError)

\* let maxFlow = 250; if (pumpEfficiency.active) maxFlow *= (1 - value / 100)
MaxFlow(fs) ==
  IF fs.pumpEfficiency.active
  THEN DivR(250 * Milli * (100 - fs.pumpEfficiency.value), 100)
  ELSE 250 * Milli

\* the output limited from below only
PumpLimitFloorOnly(output, maxFlow) == Max2(0, output)

\* output = Math.max(0, Math.min(maxFlow, output))
PumpLimit(output, maxFlow) == Max2(0, Min2(maxFlow, output))

\* a controller that does not store its output
KeepLastOut(state, output) == state

\* mpcStateRef.current.lastOut = output
StoreLastOut(state, output) == [state EXCEPT !.lastOut = output]

\* runControl(target, level, demand): the pump output and the controller
\* state it leaves behind
runControl(target, level, demand, rnd) ==
  LET error == target - level
      alg   == Algorithm(deployedParadigm)
      area  == TankArea(deployedParadigm)
      integral ==
        IF alg = "PID" THEN PidIntegral(integralRef, error) ELSE integralRef
      modelLevel ==
        IF alg = "SMITH"
        THEN SmithModel(smithStateRef.modelLevel, mpcStateRef.lastOut, demand, area)
        ELSE smithStateRef.modelLevel
      raw ==
        CASE alg = "PID"   -> PidOutput(area, error, integral, lastErrorRef)
          [] alg = "SMITH" -> SmithOutput(target, level, modelLevel)
          [] alg = "MPC"   -> MpcOutput(target, level, rnd)
          [] OTHER         -> 0
      output == PumpLimit(raw, MaxFlow(faults))
  IN  [output    |-> output,
       raw       |-> raw,
       integral  |-> integral,
       smith     |-> [smithStateRef EXCEPT !.modelLevel = modelLevel],
       lastError |-> error,
       mpc       |-> StoreLastOut(mpcStateRef, output)]

(***************************************************************************)
(* Bounds of the model                                                     *)
(***************************************************************************)
\* user operations in one run of Spec
MaxOps == 3

\* ticks in one run of Spec
MaxTicks == 3

\* what Math.random() may return (thousandths): both ends and the middle
RandSet == {0, 500, 999}

\* what the user may enter in the editors
DraftTypes == {"CONSTANT", "NOISE"}

DraftBases == {350 * Milli}

DraftAmplitudes == {150 * Milli}

DraftFrequencies == {1000}

PlanDelays == {0, 100, 250}

\* canvas nodes carrying a parameter (the variant starts with three)
MaxNodes == 4

FaultValues(f) ==
  CASE f = "leakage"        -> {50}
    [] f = "pumpEfficiency" -> {80}
    [] f = "sensorDrift"    -> {50}

(***************************************************************************)
(* Plan scheduler                                                          *)
(***************************************************************************)
\* a trigger test no plan passes
NeverDue(plan, nextT) == FALSE

\* the trigger test without the status guard
IsDueIgnoringStatus(plan, nextT) == nextT >= plan.triggerTime

\* plan.status === 'pending' && nextT >= plan.triggerTime
IsDue(plan, nextT) == plan.status = "pending" /\ nextT >= plan.triggerTime

\* the queue positions the forEach of a tick fires
DuePlans(ps, nextT) == {i \in DOMAIN ps : IsDue(ps[i], nextT)}

\* a tick that fires plans without marking them
LeaveDuePending(ps, nextT) == ps

\* plan.status = 'completed' on every due plan (mutation in place)
CompleteDue(ps, nextT) ==
  [i \in DOMAIN ps |->
     IF IsDue(ps[i], nextT) THEN [ps[i] EXCEPT !.status = "completed"] ELSE ps[i]]

\* executePlan without the test of plan.actionType
executePlanAnyType(ps, due, actionType, current) ==
  IF due = {} THEN current
  ELSE ps[CHOOSE i \in due : \A j \in due : j <= i].payload

\* executePlan over the due plans in queue order: the value the pattern state
\* of the given action type holds once the tick's updates are applied
executePlan(ps, due, actionType, current) ==
  LET hits == {i \in due : ps[i].actionType = actionType}
  IN  IF hits = {} THEN current
      ELSE ps[CHOOSE i \in hits : \A j \in hits : j <= i].payload

\* the ids of the plans the forEach of a tick fires, in the order it visits them
FiredInOrder(ps, nextT) ==
  LET hit == SelectSeq(ps, LAMBDA plan : IsDue(plan, nextT))
  IN  [k \in DOMAIN hit |-> hit[k].id]

\* (a, b) => a.triggerTime - b.triggerTime, applied by the stable
\* Array.prototype.sort: insertion of each element behind its equals
RECURSIVE InsertByTrigger(_, _)
InsertByTrigger(sorted, plan) ==
  IF sorted = <<>> THEN <<plan>>
  ELSE IF sorted[Len(sorted)].triggerTime - plan.triggerTime > 0
       THEN Append(InsertByTrigger(SubSeq(sorted, 1, Len(sorted) - 1), plan),
                   sorted[Len(sorted)])
       ELSE Append(sorted, plan)

\* a queue that is appended to and never sorted
KeepInsertionOrder(ps) == ps

RECURSIVE SortByTrigger(_)
SortByTrigger(ps) ==
  IF ps = <<>> THEN <<>>
  ELSE InsertByTrigger(SortByTrigger(SubSeq(ps, 1, Len(ps) - 1)), ps[Len(ps)])

(***************************************************************************)
(* The assistant (handleSendMessage, services/geminiService.ts)            *)
(***************************************************************************)
\* chunks of one response the model follows
MaxChunks == 1

\* a JavaScript object used as a condition is truthy, whatever its fields
Truthy(object) == TRUE

\* the fault lines of telemetryContext
telemetryContext(systemContext) ==
  [leak   |-> IF Truthy(systemContext.faults.leakage) THEN "YES" ELSE "NO",
   pump   |-> IF Truthy(systemContext.faults.pumpEfficiency) THEN "LOW" ELSE "NORMAL",
   sensor |-> IF Truthy(systemContext.faults.sensorDrift) THEN "DRIFTING" ELSE "NORMAL"]

\* the systemContext handleSendMessage builds from what its closure holds
SystemContext(t, level, fs, paradigm) ==
  [time |-> t, waterLevel |-> level, faults |-> fs, paradigm |-> paradigm]

\* handleSendMessage up to its first await: the user message, isStreaming,
\* the context, the stream and the empty model message
handleSendMessage(chat, text, systemContext) ==
  [messages |->
     chat.messages \o
       <<[sender |-> "user", text |-> text, chunks |-> 0, isError |-> FALSE],
         [sender |-> "model", text |-> "", chunks |-> 0, isError |-> FALSE]>>,
   isStreaming |-> TRUE,
   requests |->
     chat.requests \cup
       {[mid |-> Len(chat.messages) + 2,
         telemetry |-> telemetryContext(systemContext),
         context |-> systemContext]}]

\* the chat as a handler finds it
Chat == [messages |-> messages, isStreaming |-> isStreaming, requests |-> requests]

\* the chat a handler leaves
ChatBecomes(chat) ==
  /\ messages' = chat.messages
  /\ isStreaming' = chat.isStreaming
  /\ requests' = chat.requests

\* the text executePlan sends for a plan
PlanNotice(plan) ==
  IF plan.actionType = "CHANGE_DISTURBANCE" THEN "plan: demand" ELSE "plan: setpoint"

\* the sends of the plans a tick fires, in queue order, from queue position i
RECURSIVE SendForPlans(_, _, _, _, _)
SendForPlans(i, ps, due, chat, systemContext) ==
  IF i > Len(ps) THEN chat
  ELSE SendForPlans(i + 1, ps, due,
                    IF i \in due
                    THEN handleSendMessage(chat, PlanNotice(ps[i]), systemContext)
                    ELSE chat,
                    systemContext)

(***************************************************************************)
(* The main loop: one tick of the interval callback                        *)
(***************************************************************************)
\* a sensor that reads the true level
SenseTrueLevel(level, fs, rnd) == level

\* 3. Sensors (with fault), plus the noise (Math.random() - 0.5) * 0.1
Sense(level, fs, rnd) ==
  level
  + (IF fs.sensorDrift.active THEN fs.sensorDrift.value * Milli ELSE 0)
  + DivR(rnd - 500, 10)

\* a history that is appended to and never trimmed
RecordHistoryUntrimmed(prev, rec) == Append(prev, rec)

\* 6. Record History
RecordHistory(prev, rec) ==
  LET newData == Append(prev, rec)
  IN  IF 2 * Len(newData) > 3 * MAX_HISTORY
      THEN SubSeq(newData, Len(newData) - MAX_HISTORY + 1, Len(newData))
      ELSE newData

DrawsFor(pattern) == IF pattern.type \in RandomTypes THEN RandSet ELSE {500}

\* a draw other than the middle of the range is an input of the environment
\* and costs the run one of its operations
DrawCost(rS, rD, rT, rF) ==
  IF rS = 500 /\ rD = 500 /\ rT = 500 /\ rF = 500 THEN 0 ELSE 1

Tick(rS, rD, rT, rF) ==
  /\ isRunning
  /\ ticksLeft > 0
  /\ opsLeft >= DrawCost(rS, rD, rT, rF)
  /\ LET nextT         == time + DT
         due           == DuePlans(plans, nextT)
         currentDemand == getDisturbanceValue(nextT, activeDemandPattern, rD)
         currentTarget == getDisturbanceValue(nextT, activeSetpointPattern, rT)
         sensedLevel   == Sense(tankLevelRef, faults, rS)
     IN  \E ctl \in {runControl(currentTarget, sensedLevel, currentDemand, rF)} :
         \E phy \in {updatePhysics(ctl.output, currentDemand)} :
         /\ plans' = CompleteDue(plans, nextT)
         /\ activeDemandPattern' =
              executePlan(plans, due, "CHANGE_DISTURBANCE", activeDemandPattern)
         /\ activeSetpointPattern' =
              executePlan(plans, due, "CHANGE_SETPOINT", activeSetpointPattern)
         /\ applied' =
              [id \in DOMAIN applied |->
                 IF \E i \in due : plans[i].id = id
                 THEN applied[id] + 1 ELSE applied[id]]
         /\ integralRef' = ctl.integral
         /\ smithStateRef' = ctl.smith
         /\ lastErrorRef' = ctl.lastError
         /\ mpcStateRef' = ctl.mpc
         /\ pipeBufferRef' = phy.buffer
         /\ tankLevelRef' = phy.level
         /\ history' =
              RecordHistory(history,
                [t |-> nextT, level |-> phy.level, target |-> currentTarget,
                 flowIn |-> ctl.output, flowOut |-> currentDemand])
         /\ time' = nextT
         /\ loopTime' = IF due = {} THEN loopTime ELSE nextT
         /\ ChatBecomes(SendForPlans(1, plans, due, Chat,
                                     SystemContext(loopTime, tankLevelRef, faults,
                                                   deployedParadigm)))
         /\ probe' =
              [kind |-> "tick", nextT |-> nextT, demand |-> currentDemand,
               target |-> currentTarget, sensed |-> sensedLevel,
               raw |-> ctl.raw, pumpOutput |-> ctl.output,
               tankInflow |-> phy.tankInflow, levelBefore |-> tankLevelRef,
               area |-> TankArea(deployedParadigm),
               fired |-> {plans[i].id : i \in due},
               order |-> FiredInOrder(plans, nextT), leak |-> phy.leak,
               faults |-> faults]
  /\ ticksLeft' = ticksLeft - 1
  /\ opsLeft' = opsLeft - DrawCost(rS, rD, rT, rF)
  /\ UNCHANGED <<variant, nodes, deployedParadigm, isRunning,
                 disturbanceScope, draftDisturbance, planDelay, faults, clock>>

MainLoop ==
  \E rS \in RandSet :
    \E rD \in DrawsFor(activeDemandPattern) :
      \E rT \in DrawsFor(activeSetpointPattern) :
        \E rF \in (IF Algorithm(deployedParadigm) = "MPC"
                   THEN DrawsFor(activeDemandPattern) ELSE {500}) :
          Tick(rS, rD, rT, rF)

(***************************************************************************)
(* Handlers                                                                *)
(***************************************************************************)
\* one user operation of the run's budget
UserOp ==
  /\ opsLeft > 0
  /\ opsLeft' = opsLeft - 1
  /\ UNCHANGED <<ticksLeft, variant>>

\* an operation of the control panels: it leaves the canvas nodes alone
PanelOp == UserOp /\ UNCHANGED nodes

addPlan ==
  /\ PanelOp
  /\ UNCHANGED chatState
  /\ LET newPlan ==
           [id          |-> clock,
            triggerTime |-> time + planDelay,
            actionType  |-> IF disturbanceScope = "DEMAND"
                            THEN "CHANGE_DISTURBANCE" ELSE "CHANGE_SETPOINT",
            payload     |-> draftDisturbance,
            status      |-> "pending"]
     IN  /\ plans' = SortByTrigger(Append(plans, newPlan))
         /\ applied' = (clock :> 0) @@ applied
  /\ clock' = clock + 1
  /\ loopTime' = time
  /\ UNCHANGED <<deployedParadigm, time, isRunning, history,
                 activeDemandPattern, activeSetpointPattern, disturbanceScope,
                 draftDisturbance, planDelay, faults, probe>>
  /\ UNCHANGED simRefs

executeImmediate ==
  /\ PanelOp
  /\ IF disturbanceScope = "DEMAND"
     THEN /\ activeDemandPattern' = draftDisturbance
          /\ UNCHANGED activeSetpointPattern
     ELSE /\ activeSetpointPattern' = draftDisturbance
          /\ UNCHANGED activeDemandPattern
  /\ loopTime' = time
  /\ ChatBecomes(handleSendMessage(Chat,
                                   IF disturbanceScope = "DEMAND"
                                   THEN "immediate: demand" ELSE "immediate: setpoint",
                                   SystemContext(time, tankLevelRef, faults,
                                                 deployedParadigm)))
  /\ UNCHANGED <<deployedParadigm, time, isRunning, history, disturbanceScope,
                 draftDisturbance, plans, planDelay, faults, clock, probe,
                 applied>>
  /\ UNCHANGED simRefs

deployParadigm(p) ==
  /\ PanelOp
  /\ p # deployedParadigm
  /\ deployedParadigm' = p
  /\ integralRef' = 0
  /\ lastErrorRef' = 0
  /\ loopTime' = time
  /\ ChatBecomes(handleSendMessage(Chat, "deployed",
                                   SystemContext(time, tankLevelRef, faults,
                                                 deployedParadigm)))
  /\ UNCHANGED <<time, isRunning, history, activeDemandPattern,
                 activeSetpointPattern, disturbanceScope, draftDisturbance,
                 plans, planDelay, faults, clock, probe, applied>>
  /\ UNCHANGED <<pipeBufferRef, tankLevelRef, smithStateRef, mpcStateRef>>

\* onClick of the scope buttons, with the effect that syncs the draft
SetDisturbanceScope(s) ==
  /\ PanelOp
  /\ UNCHANGED chatState
  /\ s # disturbanceScope
  /\ disturbanceScope' = s
  /\ draftDisturbance' =
       IF s = "DEMAND" THEN activeDemandPattern ELSE activeSetpointPattern
  /\ UNCHANGED <<deployedParadigm, time, isRunning, history,
                 activeDemandPattern, activeSetpointPattern, plans, planDelay,
                 faults, loopTime, clock, probe, applied>>
  /\ UNCHANGED simRefs

\* onChange of the draft editors
SetDraft(field, v) ==
  /\ PanelOp
  /\ UNCHANGED chatState
  /\ draftDisturbance[field] # v
  /\ draftDisturbance' = [draftDisturbance EXCEPT ![field] = v]
  /\ UNCHANGED <<deployedParadigm, time, isRunning, history,
                 activeDemandPattern, activeSetpointPattern, disturbanceScope,
                 plans, planDelay, faults, loopTime, clock, probe, applied>>
  /\ UNCHANGED simRefs

EditDraft ==
  \/ \E v \in DraftTypes : SetDraft("type", v)
  \/ \E v \in DraftBases : SetDraft("base", v)
  \/ \E v \in DraftAmplitudes : SetDraft("amplitude", v)
  \/ \E v \in DraftFrequencies : SetDraft("frequency", v)

SetPlanDelay(d) ==
  /\ PanelOp
  /\ UNCHANGED chatState
  /\ d # planDelay
  /\ planDelay' = d
  /\ UNCHANGED <<deployedParadigm, time, isRunning, history,
                 activeDemandPattern, activeSetpointPattern, disturbanceScope,
                 draftDisturbance, plans, faults, loopTime, clock, probe,
                 applied>>
  /\ UNCHANGED simRefs

\* a deletion that leaves the queue as it is
KeepPlan(ps, id) == ps

\* ps.filter(p => p.id !== plan.id)
RemovePlan(ps, id) == SelectSeq(ps, LAMBDA p : p.id # id)

\* the delete button of a listed plan: only plans not yet completed are listed
DeletePlan(id) ==
  /\ PanelOp
  /\ UNCHANGED chatState
  /\ \E i \in DOMAIN plans : plans[i].id = id /\ plans[i].status # "completed"
  /\ plans' = RemovePlan(plans, id)
  /\ loopTime' = time
  /\ UNCHANGED <<deployedParadigm, time, isRunning, history,
                 activeDemandPattern, activeSetpointPattern, disturbanceScope,
                 draftDisturbance, planDelay, faults, clock, probe, applied>>
  /\ UNCHANGED simRefs

ToggleFault(f) ==
  /\ PanelOp
  /\ UNCHANGED chatState
  /\ faults' = [faults EXCEPT ![f].active = ~faults[f].active]
  /\ loopTime' = time
  /\ UNCHANGED <<deployedParadigm, time, isRunning, history,
                 activeDemandPattern, activeSetpointPattern, disturbanceScope,
                 draftDisturbance, plans, planDelay, clock, probe, applied>>
  /\ UNCHANGED simRefs

\* the slider of a fault, shown only while the fault is active
SetFaultValue(f, v) ==
  /\ PanelOp
  /\ UNCHANGED chatState
  /\ faults[f].active
  /\ faults[f].value # v
  /\ faults' = [faults EXCEPT ![f].value = v]
  /\ loopTime' = time
  /\ UNCHANGED <<deployedParadigm, time, isRunning, history,
                 activeDemandPattern, activeSetpointPattern, disturbanceScope,
                 draftDisturbance, plans, planDelay, clock, probe, applied>>
  /\ UNCHANGED simRefs

\* the pause/play button
ToggleRunning ==
  /\ PanelOp
  /\ UNCHANGED chatState
  /\ isRunning' = ~isRunning
  /\ loopTime' = time
  /\ UNCHANGED <<deployedParadigm, time, history, activeDemandPattern,
                 activeSetpointPattern, disturbanceScope, draftDisturbance,
                 plans, planDelay, faults, clock, probe, applied>>
  /\ UNCHANGED simRefs

\* the reset button
Reset ==
  /\ PanelOp
  /\ UNCHANGED chatState
  /\ time' = 0
  /\ history' = <<>>
  /\ tankLevelRef' = InitialLevel
  /\ pipeBufferRef' = [i \in DOMAIN pipeBufferRef |-> 0]
  /\ UNCHANGED <<deployedParadigm, isRunning, activeDemandPattern,
                 activeSetpointPattern, disturbanceScope, draftDisturbance,
                 plans, planDelay, faults, loopTime, clock, probe, applied>>
  /\ UNCHANGED <<smithStateRef, integralRef, lastErrorRef, mpcStateRef>>

\* frame of a step of the assistant panel: the simulation is not its business
ChatOp ==
  /\ UserOp
  /\ UNCHANGED <<nodes, deployedParadigm, time, isRunning, history,
                 activeDemandPattern, activeSetpointPattern, disturbanceScope,
                 draftDisturbance, plans, planDelay, faults, loopTime, clock,
                 applied>>
  /\ UNCHANGED simRefs

\* console.error(error) in a catch block, as the last thing observed
ConsoleError == [probe EXCEPT !.kind = "error"]

\* ChatInput's onSend: the input is disabled while isStreaming
UserSend ==
  /\ ChatOp
  /\ ~isStreaming
  /\ UNCHANGED probe
  /\ ChatBecomes(handleSendMessage(Chat, "user",
                                   SystemContext(time, tankLevelRef, faults,
                                                 deployedParadigm)))

\* for await (const chunk of stream): one more chunk of a response
StreamChunk(request) ==
  /\ ChatOp
  /\ request \in requests
  /\ messages[request.mid].chunks < MaxChunks
  /\ messages' = [messages EXCEPT ![request.mid].chunks = @ + 1]
  /\ UNCHANGED <<isStreaming, requests, probe>>

\* the stream ends: setIsStreaming(false)
StreamEnd(request) ==
  /\ ChatOp
  /\ request \in requests
  /\ requests' = requests \ {request}
  /\ isStreaming' = FALSE
  /\ UNCHANGED <<messages, probe>>

\* streamGeminiResponse throws: the catch and finally blocks of src/App.tsx
StreamFail(request) ==
  /\ ChatOp
  /\ request \in requests
  /\ requests' = requests \ {request}
  /\ messages' =
       Append(messages,
              [sender |-> "system", text |-> "error", chunks |-> 0,
               isError |-> TRUE])
  /\ isStreaming' = FALSE
  /\ probe' = ConsoleError

\* streamGeminiResponse throws in the topology variant: console.error only
TopoStreamFail(request) ==
  /\ ChatOp
  /\ request \in requests
  /\ requests' = requests \ {request}
  /\ isStreaming' = FALSE
  /\ probe' = ConsoleError
  /\ UNCHANGED messages

(***************************************************************************)
(* The App of src/App.tsx                                                  *)
(***************************************************************************)
Constructed ==
  /\ messages = <<>>
  /\ isStreaming = FALSE
  /\ requests = {}
  /\ variant = "App"
  /\ nodes = <<>>
  /\ deployedParadigm = DefaultParadigm
  /\ time = 0
  /\ isRunning = TRUE
  /\ history = <<>>
  /\ activeDemandPattern = InitialDemandPattern
  /\ activeSetpointPattern = InitialSetpointPattern
  /\ disturbanceScope = "DEMAND"
  /\ draftDisturbance = InitialDemandPattern
  /\ plans = <<>>
  /\ planDelay = 10000
  /\ faults = InitialFaults
  /\ pipeBufferRef = [i \in 1..BUFFER_SIZE |-> 0]
  /\ tankLevelRef = InitialLevel
  /\ smithStateRef = [modelLevel |-> InitialLevel, delayedLevel |-> InitialLevel]
  /\ integralRef = 0
  /\ lastErrorRef = 0
  /\ mpcStateRef = [lastOut |-> 0]
  /\ loopTime = 0
  /\ clock = 1
  /\ probe = NoProbe
  /\ applied = << >>

Init ==
  /\ Constructed
  /\ opsLeft = MaxOps
  /\ ticksLeft = MaxTicks

Next ==
  \/ MainLoop
  \/ addPlan
  \/ executeImmediate
  \/ \E p \in ParadigmTypes : deployParadigm(p)
  \/ \E s \in {"DEMAND", "TARGET"} : SetDisturbanceScope(s)
  \/ EditDraft
  \/ \E d \in PlanDelays : SetPlanDelay(d)
  \/ \E i \in DOMAIN plans : DeletePlan(plans[i].id)
  \/ \E f \in FaultNames : ToggleFault(f)
  \/ \E f \in FaultNames : \E v \in FaultValues(f) : SetFaultValue(f, v)
  \/ ToggleRunning
  \/ Reset
  \/ UserSend
  \/ \E request \in requests : StreamChunk(request)
  \/ \E request \in requests : StreamEnd(request)
  \/ \E request \in requests : StreamFail(request)

Spec == Init /\ [][Next]_vars

(***************************************************************************)
(* The loop of src/App.tsx with the handlers that write what the sensor    *)
(* and the controller read: the faults, the paradigm, pause and reset.     *)
(***************************************************************************)
\* user operations (and draws off the middle) in one run of SpecSensor
MaxSensorOps == 2

InitSensor ==
  /\ Constructed
  /\ opsLeft = MaxSensorOps
  /\ ticksLeft = MaxTicks

NextSensor ==
  \/ MainLoop
  \/ \E p \in ParadigmTypes : deployParadigm(p)
  \/ \E f \in FaultNames : ToggleFault(f)
  \/ \E f \in FaultNames : \E v \in FaultValues(f) : SetFaultValue(f, v)
  \/ ToggleRunning
  \/ Reset

SpecSensor == InitSensor /\ [][NextSensor]_vars

(***************************************************************************)
(* The plan scheduler of src/App.tsx on its own: the loop and the handlers *)
(* that read or write the plan queue, the draft, the scope and the time.   *)
(***************************************************************************)
\* user operations in one run of SpecPlans
MaxPlanOps == 4

InitPlans ==
  /\ Constructed
  /\ opsLeft = MaxPlanOps
  /\ ticksLeft = MaxTicks

\* a tick with every Math.random() in the middle of its range
QuietLoop == Tick(500, 500, 500, 500)

NextPlans ==
  \/ QuietLoop
  \/ addPlan
  \/ executeImmediate
  \/ \E s \in {"DEMAND", "TARGET"} : SetDisturbanceScope(s)
  \/ \E v \in DraftBases : SetDraft("base", v)
  \/ \E d \in PlanDelays : SetPlanDelay(d)
  \/ \E i \in DOMAIN plans : DeletePlan(plans[i].id)
  \/ Reset

SpecPlans == InitPlans /\ [][NextPlans]_vars

(***************************************************************************)
(* The plan scheduler under a fair interval timer: while isRunning holds   *)
(* and no dependency of the loop's effect changes, setInterval calls the   *)
(* tick every DT.  The user queues, deletes, pauses and resets only while  *)
(* the run is long enough to bring the time to every pending trigger.      *)
(***************************************************************************)
\* ticks in one run of SpecFair
FairTicks == 5

\* user operations in one run of SpecFair
MaxFairOps == 3

\* the ticks left take the time to the trigger of every pending plan, which
\* fires in the first tick at or after it
EnoughTicks ==
  \A i \in DOMAIN plans :
    plans[i].status = "pending" =>
      /\ ticksLeft > 0
      /\ time + ticksLeft * DT >= plans[i].triggerTime

InitFair ==
  /\ Constructed
  /\ opsLeft = MaxFairOps
  /\ ticksLeft = FairTicks

FairUserStep ==
  \/ addPlan
  \/ \E d \in PlanDelays : SetPlanDelay(d)
  \/ \E i \in DOMAIN plans : DeletePlan(plans[i].id)
  \/ ToggleRunning
  \/ Reset

NextFair ==
  \/ QuietLoop
  \/ FairUserStep /\ EnoughTicks'

SpecFair == InitFair /\ [][NextFair]_vars /\ WF_vars(QuietLoop)

(***************************************************************************)
(* The topology variant of the App (src/unnamed/part_000)                  *)
(***************************************************************************)
TOPO_BUFFER_SIZE == 500

\* the nodes that carry a simulation parameter: area (m2), delay (ms),
\* efficiency (%)
ParamNodeTypes == {"PUMP", "PIPE", "RESERVOIR"}

PaletteData(type) ==
  CASE type = "RESERVOIR" -> 100
    [] type = "PIPE"      -> 5000
    [] type = "PUMP"      -> 100

\* the canvas applyParadigm lays out (and useState starts with, area 80)
ParadigmNodes(area) ==
  <<[type |-> "PUMP", data |-> 100],
    [type |-> "PIPE", data |-> 5000],
    [type |-> "RESERVOIR", data |-> area]>>

\* nodes.find(n => n.type === type)?.data.x || fallback
NodeData(ns, type, fallback) ==
  LET hits == {i \in DOMAIN ns : ns[i].type = type}
  IN  IF hits = {} THEN fallback
      ELSE LET d == ns[CHOOSE i \in hits : \A j \in hits : i <= j].data
           IN  IF d = 0 THEN fallback ELSE d

\* getDisturbanceValue of the variant: the same waveforms, without TRIANGLE,
\* SAWTOOTH and RANDOM_WALK, which fall to the default
TopoDisturbanceValue(t, config, rnd) ==
  IF config.type \in {"TRIANGLE", "SAWTOOTH", "RANDOM_WALK"}
  THEN config.base
  ELSE getDisturbanceValue(t, config, rnd)

\* maxQ = 250 * (eff/100); if (pumpEfficiency.active) maxQ *= (1 - value/100)
TopoMaxFlow(eff, fs) ==
  LET maxQ == DivR(250 * Milli * eff, 100)
  IN  IF fs.pumpEfficiency.active
      THEN DivR(maxQ * (100 - fs.pumpEfficiency.value), 100)
      ELSE maxQ

\* the control law of the variant
TopoControl(alg, area, error, integral, lastError, lastOut) ==
  CASE alg = "PID" -> PidOutput(area, error, integral, lastError)
    [] alg = "MPC" -> lastOut + Gain(25, error)
    [] OTHER       -> Gain(40, error) + 50 * Milli

\* buf.push(out); if (buf.length > BUFFER_SIZE) buf.shift()
TopoPush(buf, out) ==
  LET pushed == Append(buf, out)
  IN  IF Len(pushed) > TOPO_BUFFER_SIZE THEN Tail(pushed) ELSE pushed

\* idx = Math.floor(delay/DT); buf.length >= idx ? buf[buf.length - idx] : 0
\* (buf[buf.length] is undefined: the sliders keep delay >= 1 s)
TopoInflow(buf, delay) ==
  LET idx == delay \div DT
  IN  IF Len(buf) >= idx /\ idx >= 1 THEN buf[Len(buf) - idx + 1] ELSE 0

\* next.length > MAX_HISTORY ? next.slice(-MAX_HISTORY) : next
TopoRecordHistory(prev, rec) ==
  LET next == Append(prev, rec)
  IN  IF Len(next) > MAX_HISTORY
      THEN SubSeq(next, Len(next) - MAX_HISTORY + 1, Len(next))
      ELSE next

\* one tick of the physics loop
TopoTick(rD, rT) ==
  /\ isRunning
  /\ ticksLeft > 0
  /\ opsLeft >= DrawCost(500, rD, rT, 500)
  /\ LET nextT  == time + DT
         due    == DuePlans(plans, nextT)
         area   == NodeData(nodes, "RESERVOIR", TankArea(deployedParadigm))
         delay  == NodeData(nodes, "PIPE", 5000)
         eff    == NodeData(nodes, "PUMP", 100)
         demand == TopoDisturbanceValue(nextT, activeDemandPattern, rD)
         target == TopoDisturbanceValue(nextT, activeSetpointPattern, rT)
         error  == target - tankLevelRef
         alg    == Algorithm(deployedParadigm)
         integral ==
           IF alg = "PID" THEN PidIntegral(integralRef, error) ELSE integralRef
         raw    == TopoControl(alg, area, error, integral, lastErrorRef,
                               mpcStateRef.lastOut)
         out    == PumpLimit(raw, TopoMaxFlow(eff, faults))
     IN  \E buf \in {TopoPush(pipeBufferRef, out)} :
         \E inflow \in {TopoInflow(buf, delay)} :
         \E leak \in {LeakFlow(faults, tankLevelRef)} :
         \E level \in {ClampLevel(tankLevelRef,
                                   LevelStep(inflow - demand - leak, area))} :
         /\ plans' = CompleteDue(plans, nextT)
         /\ activeDemandPattern' =
              executePlan(plans, due, "CHANGE_DISTURBANCE", activeDemandPattern)
         /\ activeSetpointPattern' =
              executePlan(plans, due, "CHANGE_SETPOINT", activeSetpointPattern)
         /\ applied' =
              [id \in DOMAIN applied |->
                 IF \E i \in due : plans[i].id = id
                 THEN applied[id] + 1 ELSE applied[id]]
         /\ integralRef' = integral
         /\ lastErrorRef' = error
         /\ mpcStateRef' = StoreLastOut(mpcStateRef, out)
         /\ pipeBufferRef' = buf
         /\ tankLevelRef' = level
         /\ history' =
              TopoRecordHistory(history,
                [t |-> nextT, level |-> level, target |-> target,
                 flowIn |-> out, flowOut |-> demand])
         /\ time' = nextT
         /\ probe' =
              [kind |-> "tick", nextT |-> nextT, demand |-> demand,
               target |-> target, sensed |-> tankLevelRef, raw |-> raw,
               pumpOutput |-> out, tankInflow |-> inflow,
               levelBefore |-> tankLevelRef, area |-> area,
               fired |-> {plans[i].id : i \in due},
               order |-> FiredInOrder(plans, nextT), leak |-> leak,
               faults |-> faults]
  /\ ticksLeft' = ticksLeft - 1
  /\ opsLeft' = opsLeft - DrawCost(500, rD, rT, 500)
  /\ UNCHANGED <<variant, nodes, deployedParadigm, isRunning, disturbanceScope,
                 draftDisturbance, planDelay, faults, smithStateRef, loopTime,
                 clock>>
  /\ UNCHANGED chatState

PhysicsLoop ==
  \E rD \in DrawsFor(activeDemandPattern) :
    \E rT \in DrawsFor(activeSetpointPattern) :
      TopoTick(rD, rT)

\* onClick of a paradigm card: any card, the deployed one included
applyParadigm(p) ==
  /\ UserOp
  /\ deployedParadigm' = p
  /\ nodes' = ParadigmNodes(TankArea(p))
  /\ tankLevelRef' = InitialLevel
  /\ integralRef' = 0
  /\ ChatBecomes(handleSendMessage(Chat, "applied",
                                   SystemContext(time, InitialLevel, faults,
                                                 deployedParadigm)))
  /\ UNCHANGED <<time, isRunning, history, activeDemandPattern,
                 activeSetpointPattern, disturbanceScope, draftDisturbance,
                 plans, planDelay, faults, loopTime, clock, probe, applied>>
  /\ UNCHANGED <<pipeBufferRef, smithStateRef, lastErrorRef, mpcStateRef>>

\* the switch of a fault: active flips and value becomes 20
TopoToggleFault(f) ==
  /\ UserOp
  /\ UNCHANGED chatState
  /\ faults' = [faults EXCEPT ![f] = [active |-> ~faults[f].active, value |-> 20]]
  /\ UNCHANGED <<nodes, deployedParadigm, time, isRunning, history,
                 activeDemandPattern, activeSetpointPattern, disturbanceScope,
                 draftDisturbance, plans, planDelay, loopTime, clock, probe,
                 applied>>
  /\ UNCHANGED simRefs

\* the reset button of the variant
TopoReset ==
  /\ UserOp
  /\ UNCHANGED chatState
  /\ time' = 0
  /\ history' = <<>>
  /\ UNCHANGED <<nodes, deployedParadigm, isRunning, activeDemandPattern,
                 activeSetpointPattern, disturbanceScope, draftDisturbance,
                 plans, planDelay, faults, loopTime, clock, probe, applied>>
  /\ UNCHANGED simRefs

\* frame of an operation on the canvas
CanvasOp ==
  /\ UserOp
  /\ UNCHANGED chatState
  /\ UNCHANGED <<deployedParadigm, time, isRunning, history,
                 activeDemandPattern, activeSetpointPattern, disturbanceScope,
                 draftDisturbance, plans, planDelay, faults, loopTime, clock,
                 probe, applied>>
  /\ UNCHANGED simRefs

\* the sliders of the inspector
SetNodeData(i, v) ==
  /\ CanvasOp
  /\ i \in DOMAIN nodes
  /\ nodes[i].data # v
  /\ nodes' = [nodes EXCEPT ![i].data = v]

\* a palette item dropped on the canvas
handleDrop(type) ==
  /\ CanvasOp
  /\ Len(nodes) < MaxNodes
  /\ nodes' = Append(nodes, [type |-> type, data |-> PaletteData(type)])

\* the delete button of the inspector
DeleteNode(i) ==
  /\ CanvasOp
  /\ i \in DOMAIN nodes
  /\ nodes' = [k \in 1..(Len(nodes) - 1) |-> IF k < i THEN nodes[k] ELSE nodes[k + 1]]

\* what the inspector sliders may be set to
NodeValues(type) ==
  CASE type = "RESERVOIR" -> {10, 300}
    [] type = "PIPE"      -> {1000, 20000}
    [] type = "PUMP"      -> {0, 50}

TopoConstructed ==
  /\ messages = <<>>
  /\ isStreaming = FALSE
  /\ requests = {}
  /\ variant = "Topology"
  /\ nodes = ParadigmNodes(80)
  /\ deployedParadigm = DefaultParadigm
  /\ time = 0
  /\ isRunning = TRUE
  /\ history = <<>>
  /\ activeDemandPattern = InitialDemandPattern
  /\ activeSetpointPattern = InitialSetpointPattern
  /\ disturbanceScope = "DEMAND"
  /\ draftDisturbance = InitialDemandPattern
  /\ plans = <<>>
  /\ planDelay = 10000
  /\ faults = InitialFaults
  /\ pipeBufferRef = [i \in 1..TOPO_BUFFER_SIZE |-> 0]
  /\ tankLevelRef = InitialLevel
  /\ smithStateRef = [modelLevel |-> InitialLevel, delayedLevel |-> InitialLevel]
  /\ integralRef = 0
  /\ lastErrorRef = 0
  /\ mpcStateRef = [lastOut |-> 0]
  /\ loopTime = 0
  /\ clock = 1
  /\ probe = NoProbe
  /\ applied = << >>

InitTopo ==
  /\ TopoConstructed
  /\ opsLeft = MaxOps
  /\ ticksLeft = MaxTicks

NextTopo ==
  \/ PhysicsLoop
  \/ addPlan
  \/ executeImmediate
  \/ \E p \in ParadigmTypes : applyParadigm(p)
  \/ \E s \in {"DEMAND", "TARGET"} : SetDisturbanceScope(s)
  \/ EditDraft
  \/ \E d \in PlanDelays : SetPlanDelay(d)
  \/ \E i \in DOMAIN plans : DeletePlan(plans[i].id)
  \/ \E f \in FaultNames : TopoToggleFault(f)
  \/ \E f \in FaultNames : SetFaultValue(f, 50)
  \/ \E i \in DOMAIN nodes : \E v \in NodeValues(nodes[i].type) : SetNodeData(i, v)
  \/ \E type \in ParamNodeTypes : handleDrop(type)
  \/ \E i \in DOMAIN nodes : DeleteNode(i)
  \/ ToggleRunning
  \/ TopoReset
  \/ UserSend
  \/ \E request \in requests : StreamChunk(request)
  \/ \E request \in requests : StreamEnd(request)
  \/ \E request \in requests : TopoStreamFail(request)

SpecTopo == InitTopo /\ [][NextTopo]_vars

(***************************************************************************)
(* Long runs of the main loop, of either variant.  The user configures the *)
(* App before the first tick (patterns applied with executeImmediate, a    *)
(* paradigm deployed, faults set: none of these changes a ref at time 0)   *)
(* and then only watches.  Math.random() yields the cycle 0, 500, 999.     *)
(***************************************************************************)
\* ticks in one long run
DeepTicks == 100

HeavyDemandPattern ==
  [type |-> "STEP", base |-> 350 * Milli, amplitude |-> 150 * Milli,
   frequency |-> 1000, active |-> TRUE]

HighSetpointPattern ==
  [type |-> "CONSTANT", base |-> 350 * Milli, amplitude |-> 0, frequency |-> 0,
   active |-> TRUE]

LowSetpointPattern ==
  [type |-> "CONSTANT", base |-> 0, amplitude |-> 0, frequency |-> 0,
   active |-> TRUE]

WorstFaults ==
  [leakage        |-> [active |-> TRUE, value |-> 50],
   pumpEfficiency |-> [active |-> TRUE, value |-> 80],
   sensorDrift    |-> [active |-> TRUE, value |-> 50]]

DeepDemands == {InitialDemandPattern, HeavyDemandPattern}

DeepSetpoints == {InitialSetpointPattern, HighSetpointPattern, LowSetpointPattern}

DeepFaults == {InitialFaults, WorstFaults}

\* the fault sliders of the variant end at 50
TopoWorstFaults ==
  [leakage        |-> [active |-> TRUE, value |-> 50],
   pumpEfficiency |-> [active |-> TRUE, value |-> 50],
   sensorDrift    |-> [active |-> TRUE, value |-> 50]]

TopoDeepFaults == {InitialFaults, TopoWorstFaults}

DeepDraw(t) ==
  LET k == (t \div DT) % 3
  IN  IF k = 0 THEN 0 ELSE IF k = 1 THEN 500 ELSE 999

InitDeep ==
  /\ messages = <<>>
  /\ isStreaming = FALSE
  /\ requests = {}
  /\ variant \in {"App", "Topology"}
  /\ deployedParadigm \in ParadigmTypes
  /\ nodes = IF variant = "App" THEN <<>>
             ELSE ParadigmNodes(TankArea(deployedParadigm))
  /\ time = 0
  /\ isRunning = TRUE
  /\ history = <<>>
  /\ activeDemandPattern \in DeepDemands
  /\ activeSetpointPattern \in DeepSetpoints
  /\ disturbanceScope = "TARGET"
  /\ draftDisturbance = activeSetpointPattern
  /\ plans = <<>>
  /\ planDelay = 10000
  /\ faults \in (IF variant = "App" THEN DeepFaults ELSE TopoDeepFaults)
  /\ pipeBufferRef =
       [i \in 1..(IF variant = "App" THEN BUFFER_SIZE ELSE TOPO_BUFFER_SIZE) |-> 0]
  /\ tankLevelRef = InitialLevel
  /\ smithStateRef = [modelLevel |-> InitialLevel, delayedLevel |-> InitialLevel]
  /\ integralRef = 0
  /\ lastErrorRef = 0
  /\ mpcStateRef = [lastOut |-> 0]
  /\ loopTime = 0
  /\ clock = 1
  /\ probe = NoProbe
  /\ applied = << >>
  /\ opsLeft = DeepTicks
  /\ ticksLeft = DeepTicks

NextDeep ==
  \/ variant = "App" /\ \E r \in {DeepDraw(time)} : Tick(r, 500, 500, 500)
  \/ variant = "Topology" /\ TopoTick(500, 500)

SpecDeep == InitDeep /\ [][NextDeep]_vars

(***************************************************************************)
(* Runs long enough for the history to be trimmed, of either variant as    *)
(* constructed, with Math.random() at the middle of its range; the user    *)
(* may press reset at one of a few moments.                                *)
(***************************************************************************)
\* ticks in one run of SpecLong
LongTicks == 905

\* presses of the reset button in one run of SpecLong
MaxLongResets == 1

\* the simulation times (ms) at which the user may press reset
LongResetTimes == {70000, 90200}

InitLong ==
  /\ Constructed \/ TopoConstructed
  /\ opsLeft = MaxLongResets
  /\ ticksLeft = LongTicks

NextLong ==
  \/ variant = "App" /\ Tick(500, 500, 500, 500)
  \/ variant = "Topology" /\ TopoTick(500, 500)
  \/ variant = "App" /\ time \in LongResetTimes /\ Reset
  \/ variant = "Topology" /\ time \in LongResetTimes /\ TopoReset

SpecLong == InitLong /\ [][NextLong]_vars

(***************************************************************************)
(* The engine's functions on inputs drawn from bounded sets: the loop of   *)
(* either variant is applied to a time, a pair of patterns, a level, a     *)
(* controller state and a fault state the editors and a run can produce.   *)
(***************************************************************************)
\* ticks applied to each drawn input
MaxUnitTicks == 1

\* simulation times (ms) before the tick
UnitTimes == {0, 2900, 3400, 4900, 6900, 12900, 599900}

UnitDemands ==
  {InitialDemandPattern,
   [InitialDemandPattern EXCEPT !.frequency = 1000],
   [InitialDemandPattern EXCEPT !.type = "CONSTANT"]}

\* the default setpoint, a raised one, and the default turned into a STEP
\* with the frequency left at 0
UnitSetpoints ==
  {InitialSetpointPattern,
   [InitialSetpointPattern EXCEPT !.base = 305000],
   [InitialSetpointPattern EXCEPT !.type = "STEP", !.amplitude = 10000]}

\* the other deterministic waveforms on the default setpoint, whose
\* frequency is 0
UnitWaveTypes == {"RAMP", "SINE", "SQUARE", "TRIANGLE", "SAWTOOTH", "PULSE", "BURST"}

UnitWaveSetpoints ==
  {[InitialSetpointPattern EXCEPT !.type = w, !.amplitude = 10000] :
     w \in UnitWaveTypes}

UnitLevels == {0, 100000, InitialLevel}

\* a reservoir area the inspector of the topology variant can set
UnitSmallArea == 10

UnitIntegrals == {0, -1000}

UnitLastErrors == {0, 10000}

UnitFaults ==
  {InitialFaults,
   [InitialFaults EXCEPT !.leakage = [active |-> TRUE, value |-> 20]],
   [InitialFaults EXCEPT !.leakage = [active |-> FALSE, value |-> 20]]}

InitUnit ==
  /\ messages = <<>>
  /\ isStreaming = FALSE
  /\ requests = {}
  /\ variant \in {"App", "Topology"}
  /\ deployedParadigm \in ParadigmTypes
  /\ nodes \in (IF variant = "App" THEN {<<>>}
                ELSE {ParadigmNodes(TankArea(deployedParadigm)),
                      ParadigmNodes(UnitSmallArea)})
  /\ time \in UnitTimes
  /\ isRunning = TRUE
  /\ history = <<>>
  /\ activeDemandPattern \in UnitDemands
  /\ activeSetpointPattern \in UnitSetpoints \cup UnitWaveSetpoints
  /\ disturbanceScope = "TARGET"
  /\ draftDisturbance = activeSetpointPattern
  /\ plans = <<>>
  /\ planDelay = 10000
  /\ faults \in UnitFaults
  /\ pipeBufferRef =
       [i \in 1..(IF variant = "App" THEN BUFFER_SIZE ELSE TOPO_BUFFER_SIZE) |-> 0]
  /\ tankLevelRef \in UnitLevels
  /\ smithStateRef = [modelLevel |-> InitialLevel, delayedLevel |-> InitialLevel]
  /\ integralRef \in UnitIntegrals
  /\ lastErrorRef \in UnitLastErrors
  /\ mpcStateRef = [lastOut |-> 0]
  /\ loopTime = time
  /\ clock = 1
  /\ probe = NoProbe
  /\ applied = << >>
  /\ opsLeft = 0
  /\ ticksLeft = MaxUnitTicks
  \* the waveform inputs are applied to the freshly constructed loop
  /\ activeSetpointPattern \in UnitWaveSetpoints =>
       /\ faults = InitialFaults
       /\ tankLevelRef = InitialLevel
       /\ integralRef = 0
       /\ lastErrorRef = 0

NextUnit ==
  \/ variant = "App" /\ Tick(500, 500, 500, 500)
  \/ variant = "Topology" /\ TopoTick(500, 500)

SpecUnit == InitUnit /\ [][NextUnit]_vars

(***************************************************************************)
(* Steps, as seen from the state                                           *)
(***************************************************************************)
\* a step of the main loop
TickStep == ticksLeft' = ticksLeft - 1

\* the plan of the queue with the given id, before and after a step
PlanById(ps, id) == ps[CHOOSE i \in DOMAIN ps : ps[i].id = id]

PlanIds(ps) == {ps[i].id : i \in DOMAIN ps}

(***************************************************************************)
(* C1  The true tank level is never negative, whatever the inflows,        *)
(*     outflows and faults: the integration clamps it at 0.                *)
(***************************************************************************)
TankLevelNonNegative == tankLevelRef >= 0

\* a tick whose integration step would have taken the level below 0
TankLevelClampedAtZero ==
  /\ probe.kind = "tick"
  /\ tankLevelRef = 0
  /\ probe.levelBefore
       + LevelStep(probe.tankInflow - probe.demand
                     - LeakFlow(probe.faults, probe.levelBefore),
                   probe.area) < 0

(***************************************************************************)
(* C2  A plan stays pending in every tick whose new time is below its      *)
(*     triggerTime, is completed by the first tick whose new time reaches  *)
(*     it, and executePlan is called for it exactly once in the run.       *)
(***************************************************************************)
PlanFiresOnceStep ==
  /\ \A id \in DOMAIN applied' : applied'[id] <= 1
  /\ \A id \in PlanIds(plans) \cap PlanIds(plans') :
       LET p == PlanById(plans, id)
           q == PlanById(plans', id)
       IN  /\ q.triggerTime = p.triggerTime
           /\ (TickStep /\ p.status = "pending" /\ time' < p.triggerTime)
                => (q.status = "pending" /\ applied'[id] = 0)
           /\ (TickStep /\ p.status = "pending" /\ time' >= p.triggerTime)
                => (q.status = "completed" /\ applied'[id] = 1)
           /\ (~TickStep \/ p.status = "completed")
                => (q.status = p.status /\ applied'[id] = applied[id])
  /\ \A id \in PlanIds(plans') \ PlanIds(plans) :
       LET q == PlanById(plans', id)
       IN  /\ q.status = "pending"
           /\ q.triggerTime = time + planDelay
           /\ applied'[id] = 0

PlanFiresExactlyOnce == [][PlanFiresOnceStep]_vars

\* a plan enqueued at time 0 for T = 250 ms, pending through the ticks to
\* 100 and 200 ms and completed by the tick to 300 ms
PlanFiredAfterWaiting ==
  \E i \in DOMAIN plans :
    /\ plans[i].triggerTime = 250
    /\ plans[i].status = "completed"
    /\ applied[plans[i].id] = 1
    /\ time = 300
    /\ Len(history) = 3

(***************************************************************************)
(* C3  In the tick in which a plan fires, the demand (CHANGE_DISTURBANCE)  *)
(*     or target (CHANGE_SETPOINT) the tick evaluates comes from the       *)
(*     plan's payload pattern.                                             *)
(***************************************************************************)
\* the plan of the given action type the latest tick fired last
FiredLast(actionType) ==
  LET hits == {i \in DOMAIN plans :
                 plans[i].id \in probe.fired /\ plans[i].actionType = actionType}
  IN  IF hits = {} THEN {}
      ELSE {plans[CHOOSE i \in hits : \A j \in hits : j <= i]}

PlanEffectInFiringTick ==
  probe.kind = "tick" =>
    /\ \A p \in FiredLast("CHANGE_DISTURBANCE") :
         p.payload.type \notin RandomTypes =>
           probe.demand = getDisturbanceValue(probe.nextT, p.payload, 500)
    /\ \A p \in FiredLast("CHANGE_SETPOINT") :
         p.payload.type \notin RandomTypes =>
           probe.target = getDisturbanceValue(probe.nextT, p.payload, 500)

(***************************************************************************)
(* C4  The delay line holds BUFFER_SIZE samples, and the inflow a tick     *)
(*     consumes is the pump output pushed BUFFER_SIZE ticks earlier (0     *)
(*     during the first BUFFER_SIZE ticks after construction or reset).    *)
(***************************************************************************)
PureTransportDelay ==
  variant = "App" =>
  /\ Len(pipeBufferRef) = 50
  /\ (probe.kind = "tick" /\ probe.nextT = time /\ Len(history) * DT = time) =>
       LET n == Len(history)
       IN  probe.tankInflow = IF n <= 50 THEN 0 ELSE history[n - 50].flowIn

\* a tick that consumed a pump output pushed 50 ticks before, different from
\* the outputs pushed just before and after it
DelayedSampleArrived ==
  /\ variant = "App"
  /\ probe.kind = "tick"
  /\ Len(history) > 52
  /\ LET n == Len(history)
     IN  /\ probe.tankInflow = history[n - 50].flowIn
         /\ probe.tankInflow > 0
         /\ history[n - 50].flowIn # history[n - 49].flowIn
         /\ history[n - 50].flowIn # history[n - 51].flowIn

(***************************************************************************)
(* C5  The PID integral stays within [-500, 500]; under a positive error   *)
(*     of a metre or more it grows tick by tick until it is exactly 500,   *)
(*     and then stays at 500.                                              *)
(***************************************************************************)
IntegralLimit == 500 * Milli

AntiWindupStep ==
  /\ -IntegralLimit <= integralRef' /\ integralRef' <= IntegralLimit
  /\ (TickStep /\ Algorithm(deployedParadigm) = "PID" /\ lastErrorRef' >= Milli) =>
       /\ integralRef' >= integralRef
       /\ integralRef' > integralRef \/ integralRef' = IntegralLimit
       /\ integralRef = IntegralLimit => integralRef' = IntegralLimit

IntegralAntiWindup == [][AntiWindupStep]_vars

\* the accumulator held at 500 by a tick whose error would have raised it
IntegralSaturated ==
  /\ probe.kind = "tick"
  /\ Algorithm(deployedParadigm) = "PID"
  /\ lastErrorRef >= 10 * Milli
  /\ integralRef = IntegralLimit
  /\ Len(history) >= 2
  /\ history[Len(history) - 1].target - history[Len(history) - 1].level >= 10 * Milli

(***************************************************************************)
(* C6  Selecting a design paradigm (deployParadigm, applyParadigm in the   *)
(*     topology variant) sets the integral accumulator and the last-error  *)
(*     state to 0, whatever they were before.                              *)
(***************************************************************************)
ParadigmSelected ==
  \E p \in ParadigmTypes : deployParadigm(p) \/ applyParadigm(p)

ParadigmSwitchZeroesPid ==
  [][ParadigmSelected => (integralRef' = 0 /\ lastErrorRef' = 0)]_vars

(***************************************************************************)
(* C7  Selecting a design paradigm resets the predictor state: after       *)
(*     deployParadigm the Smith model level is 295 and the last commanded  *)
(*     output is 0, whatever ticks ran before.                             *)
(***************************************************************************)
ParadigmSwitchResetsPredictor ==
  [][(\E p \in ParadigmTypes : deployParadigm(p)) =>
       (smithStateRef'.modelLevel = InitialLevel /\ mpcStateRef'.lastOut = 0)]_vars

(***************************************************************************)
(* C8  After the reset control is used, level, delay buffer, plan queue,   *)
(*     integral and last error are at their initial defaults (295, all     *)
(*     zeros, no plans, 0, 0), time is 0 and the history is empty.         *)
(***************************************************************************)
ResetUsed == Reset \/ TopoReset

ResetRestoresDefaults ==
  [][ResetUsed =>
       /\ tankLevelRef' = InitialLevel
       /\ \A i \in DOMAIN pipeBufferRef' : pipeBufferRef'[i] = 0
       /\ plans' = <<>>
       /\ integralRef' = 0
       /\ lastErrorRef' = 0
       /\ time' = 0
       /\ history' = <<>>]_vars

(***************************************************************************)
(* C9  While isRunning is false no tick occurs and time, level, buffer,    *)
(*     controller state, history and plan statuses stay as they are; the   *)
(*     tick after a resume continues from exactly the paused state, so     *)
(*     pausing and resuming leaves no trace in the run: nothing a later    *)
(*     tick reads, the time its controller forecasts from included, is     *)
(*     changed by the pause/play button.                                   *)
(***************************************************************************)
PauseKeepsState ==
  /\ (~isRunning => ~TickStep)
  /\ (isRunning' # isRunning =>
        /\ UNCHANGED <<time, history, plans, activeDemandPattern,
                       activeSetpointPattern, faults, deployedParadigm>>
        /\ UNCHANGED simRefs
        /\ (Algorithm(deployedParadigm) = "MPC" => UNCHANGED loopTime))

PauseResumeLeavesNoTrace == [][PauseKeepsState]_vars

(***************************************************************************)
(* C10 The pump output of every tick is within [0, 250], and at most       *)
(*     250 * (1 - value/100) while the pump-efficiency fault is active;    *)
(*     so is every telemetry flowIn and every delay-buffer entry.          *)
(***************************************************************************)
PumpCeiling == 250 * Milli

PumpOutputWithinLimits ==
  /\ probe.kind = "tick" =>
       /\ 0 <= probe.pumpOutput /\ probe.pumpOutput <= PumpCeiling
       /\ probe.faults.pumpEfficiency.active =>
            100 * probe.pumpOutput
              <= PumpCeiling * (100 - probe.faults.pumpEfficiency.value)
  /\ \A i \in DOMAIN history :
       0 <= history[i].flowIn /\ history[i].flowIn <= PumpCeiling
  /\ \A i \in DOMAIN pipeBufferRef :
       0 <= pipeBufferRef[i] /\ pipeBufferRef[i] <= PumpCeiling

\* a tick of the App whose controller asked for more than the faulty pump
\* can deliver, and an earlier one that asked for less than 0
PumpOutputLimited ==
  /\ variant = "App"
  /\ probe.kind = "tick"
  /\ probe.faults.pumpEfficiency.active
  /\ probe.raw > probe.pumpOutput
  /\ probe.pumpOutput = 50 * Milli
  /\ \E i \in DOMAIN history : history[i].flowIn = 0

(***************************************************************************)
(* C11  Within one tick of App.tsx the controller runs on that tick's      *)
(* demand and target, the physics then pushes exactly that output to the   *)
(* tail of the delay buffer and integrates the level from the sample it    *)
(* shifted out, and the telemetry record written last holds that output    *)
(* as flowIn, the post-integration level and the tick's demand and target. *)
(***************************************************************************)
LastRecord(h) == h[Len(h)]

TickOrderStep ==
  (TickStep /\ variant = "App") =>
    /\ history' # <<>>
    /\ pipeBufferRef' # <<>>
    /\ \E rD \in RandSet :
         probe'.demand = getDisturbanceValue(time', activeDemandPattern, rD)
    /\ \E rT \in RandSet :
         probe'.target = getDisturbanceValue(time', activeSetpointPattern, rT)
    /\ \E rF \in RandSet :
         probe'.pumpOutput =
           runControl(probe'.target, probe'.sensed, probe'.demand, rF).output
    /\ pipeBufferRef'[Len(pipeBufferRef')] = probe'.pumpOutput
    /\ probe'.tankInflow = PipeShift(pipeBufferRef)
    /\ tankLevelRef' =
         ClampLevel(tankLevelRef,
                    LevelStep(probe'.tankInflow - probe'.demand
                                - LeakFlow(faults, tankLevelRef),
                              TankArea(deployedParadigm)))
    /\ LastRecord(history').t = time'
    /\ LastRecord(history').flowIn = probe'.pumpOutput
    /\ LastRecord(history').level = tankLevelRef'
    /\ LastRecord(history').flowOut = probe'.demand
    /\ LastRecord(history').target = probe'.target

TickOrder == [][TickOrderStep]_vars

\* two ticks with different pump outputs, the newer one at the buffer's tail
\* and in the newest record, while an older sample is what the tank received
FreshOutputPushed ==
  /\ variant = "App"
  /\ probe.kind = "tick"
  /\ Len(history) >= 2
  /\ LastRecord(history).flowIn # history[Len(history) - 1].flowIn
  /\ LastRecord(history).flowIn > 0
  /\ pipeBufferRef[Len(pipeBufferRef)] = LastRecord(history).flowIn
  /\ probe.tankInflow # probe.pumpOutput
  /\ LastRecord(history).level = tankLevelRef
  /\ tankLevelRef # probe.levelBefore

(***************************************************************************)
(* C12  The plan queue is always ordered by triggerTime ascending, plans   *)
(* of equal triggerTime in insertion order (ids are handed out in          *)
(* insertion order), whatever addPlan, plan deletion and reset did; so     *)
(* the plans a tick fires are fired in that order, and the pattern a tick  *)
(* leaves active is the payload of the last plan of its type in it.        *)
(***************************************************************************)
\* plan p comes before plan q: earlier triggerTime, or the same and inserted first
PlanBefore(p, q) ==
  \/ p.triggerTime < q.triggerTime
  \/ p.triggerTime = q.triggerTime /\ p.id < q.id

QueueOrdered(ps) == \A i, j \in DOMAIN ps : i < j => PlanBefore(ps[i], ps[j])

\* the last of the plans with the given ids and type in the order PlanBefore
LastFired(ps, ids, actionType) ==
  CHOOSE p \in {PlanById(ps, id) : id \in ids} :
    /\ p.actionType = actionType
    /\ \A id \in ids :
         PlanById(ps, id).actionType = actionType /\ id # p.id
           => PlanBefore(PlanById(ps, id), p)

FiresInQueueOrderStep ==
  TickStep =>
    LET order == probe'.order
        ids   == {order[k] : k \in DOMAIN order}
        typed(actionType) == {id \in ids : PlanById(plans, id).actionType = actionType}
    IN  /\ ids = probe'.fired
        /\ \A k, l \in DOMAIN order :
             k < l => PlanBefore(PlanById(plans, order[k]), PlanById(plans, order[l]))
        /\ typed("CHANGE_DISTURBANCE") # {} =>
             activeDemandPattern' = LastFired(plans, ids, "CHANGE_DISTURBANCE").payload
        /\ typed("CHANGE_SETPOINT") # {} =>
             activeSetpointPattern' = LastFired(plans, ids, "CHANGE_SETPOINT").payload

PlanQueueOrdered == [](QueueOrdered(plans)) /\ [][FiresInQueueOrderStep]_vars

\* a tick fired two plans of one type, the one inserted later first because
\* its triggerTime is the earlier one, and the pattern is the payload of the
\* one fired last
LaterPlanFiredFirst ==
  /\ probe.kind = "tick"
  /\ Len(probe.order) = 2
  /\ probe.order[1] > probe.order[2]
  /\ PlanById(plans, probe.order[1]).triggerTime
       < PlanById(plans, probe.order[2]).triggerTime
  /\ PlanById(plans, probe.order[1]).actionType = "CHANGE_DISTURBANCE"
  /\ PlanById(plans, probe.order[2]).actionType = "CHANGE_DISTURBANCE"
  /\ activeDemandPattern = PlanById(plans, probe.order[2]).payload

(***************************************************************************)
(* C13  A plan's status is 'pending' or 'completed', never 'active'; it    *)
(* changes only from pending to completed, in the tick that fires the      *)
(* plan; a completed plan stays completed and no later tick applies it     *)
(* again, also when a reset took time back below its triggerTime and when  *)
(* other plans are added or deleted.                                       *)
(***************************************************************************)
PlanStatusStep ==
  /\ \A i \in DOMAIN plans' : plans'[i].status \in {"pending", "completed"}
  /\ TickStep =>
       \A id \in probe'.fired :
         /\ PlanById(plans, id).status = "pending"
         /\ PlanById(plans', id).status = "completed"
  /\ \A id \in PlanIds(plans) \cap PlanIds(plans') :
       LET p == PlanById(plans, id)
           q == PlanById(plans', id)
       IN  /\ p.status = "completed" =>
                /\ q.status = "completed"
                /\ applied'[id] = applied[id]
                /\ TickStep => id \notin probe'.fired
           /\ q.status # p.status =>
                /\ TickStep
                /\ id \in probe'.fired
                /\ applied'[id] = applied[id] + 1

PlanStatusOneWay == [][PlanStatusStep]_vars

\* a tick took time across the triggerTime of a plan that an earlier tick had
\* completed (time was reset in between), with another plan queued since,
\* and did not apply it again
CompletedPlanCrossedAgain ==
  /\ probe.kind = "tick"
  /\ \E i \in DOMAIN plans :
       /\ plans[i].status = "completed"
       /\ applied[plans[i].id] = 1
       /\ plans[i].id \notin probe.fired
       /\ time - DT < plans[i].triggerTime
       /\ plans[i].triggerTime <= time
       /\ \E j \in DOMAIN plans : plans[j].id > plans[i].id

(***************************************************************************)
(* C14  A failed assistant request (streamGeminiResponse throws) changes   *)
(* only chat state: an error message is appended for the UI, isStreaming   *)
(* returns to false, and time, tank level, delay buffer, controller state, *)
(* active patterns, faults and plans are left as they were.                *)
(***************************************************************************)
RequestFailed(request) ==
  IF variant = "App" THEN StreamFail(request) ELSE TopoStreamFail(request)

FailedRequestStep ==
  \A request \in requests :
    RequestFailed(request) =>
      /\ ~isStreaming'
      /\ Len(messages') = Len(messages) + 1
      /\ messages'[Len(messages')].isError
      /\ SubSeq(messages', 1, Len(messages)) = messages
      /\ UNCHANGED <<time, history, activeDemandPattern, activeSetpointPattern,
                     faults, plans, deployedParadigm, isRunning, nodes>>
      /\ UNCHANGED simRefs

FailedRequestReported == [][FailedRequestStep]_vars

\* the part of it both variants keep: no step of the assistant touches the
\* simulation, and a request in flight does not hold the loop's state back
AssistantLeavesSimulationStep ==
  (\/ UserSend
   \/ \E request \in requests :
        StreamChunk(request) \/ StreamEnd(request) \/ RequestFailed(request))
    => /\ UNCHANGED <<time, history, activeDemandPattern, activeSetpointPattern,
                      faults, plans, deployedParadigm, isRunning, nodes>>
       /\ UNCHANGED simRefs

AssistantLeavesSimulation == [][AssistantLeavesSimulationStep]_vars

\* a tick ran while a request was in flight
TickWithRequestInFlight == probe.kind = "tick" /\ requests # {} /\ time > 0

(***************************************************************************)
(* C15  The demand and the setpoint pattern are independent and replaced   *)
(* wholesale: executeImmediate replaces exactly the pattern of the scope   *)
(* with the draft, a tick replaces a pattern only with the payload of a    *)
(* plan of that pattern's type it fired, and an edit of the draft changes  *)
(* neither active pattern nor the payload of any queued plan.              *)
(***************************************************************************)
FiredOfType(actionType) ==
  {id \in probe'.fired : PlanById(plans, id).actionType = actionType}

PatternsIndependentStep ==
  /\ executeImmediate =>
       /\ disturbanceScope = "DEMAND" =>
            activeDemandPattern' = draftDisturbance /\ UNCHANGED activeSetpointPattern
       /\ disturbanceScope = "TARGET" =>
            activeSetpointPattern' = draftDisturbance /\ UNCHANGED activeDemandPattern
  /\ TickStep =>
       /\ IF FiredOfType("CHANGE_DISTURBANCE") = {}
          THEN UNCHANGED activeDemandPattern
          ELSE \E id \in FiredOfType("CHANGE_DISTURBANCE") :
                 activeDemandPattern' = PlanById(plans, id).payload
       /\ IF FiredOfType("CHANGE_SETPOINT") = {}
          THEN UNCHANGED activeSetpointPattern
          ELSE \E id \in FiredOfType("CHANGE_SETPOINT") :
                 activeSetpointPattern' = PlanById(plans, id).payload
  /\ draftDisturbance' # draftDisturbance =>
       UNCHANGED <<activeDemandPattern, activeSetpointPattern>>
  /\ \A id \in PlanIds(plans) \cap PlanIds(plans') :
       /\ PlanById(plans', id).payload = PlanById(plans, id).payload
       /\ PlanById(plans', id).actionType = PlanById(plans, id).actionType

HistoryContiguous ==
  /\ Len(history) <= (IF variant = "App" THEN 900 ELSE 600)
  /\ \A i \in 1..(Len(history) - 1) : history[i + 1].t = history[i].t + DT
  /\ history # <<>> =>
       /\ LastRecord(history).t = time
       /\ history[1].t >= DT

HistoryAppendStep ==
  TickStep =>
    /\ history' # <<>>
    /\ Len(history') <= Len(history) + 1
    /\ LastRecord(history').t = time'
    /\ time' = time + DT
    /\ LET produced == Append(history, LastRecord(history'))
       IN  history' = SubSeq(produced, Len(produced) - Len(history') + 1,
                             Len(produced))

HistoryBounded == [](HistoryContiguous) /\ [][HistoryAppendStep]_vars

\* the history of App.tsx has been trimmed: it starts after the first tick of
\* the run and holds fewer records than ticks have run
HistoryTrimmed ==
  /\ variant = "App"
  /\ history # <<>>
  /\ history[1].t > DT
  /\ Len(history) * DT < time
  /\ Len(history) >= 600

(***************************************************************************)
(* C17  The fault lines of the telemetry sent with a request report a      *)
(* fault (leak YES, pump LOW, sensor DRIFTING) exactly when the active     *)
(* flag of that fault is true in the context the request was built from.   *)
(***************************************************************************)
FaultLinesMatchFlags ==
  \A request \in requests :
    /\ (request.telemetry.leak = "YES") <=> request.context.faults.leakage.active
    /\ (request.telemetry.pump = "LOW") <=> request.context.faults.pumpEfficiency.active
    /\ (request.telemetry.sensor = "DRIFTING")
         <=> request.context.faults.sensorDrift.active

(***************************************************************************)
(* C18  getDisturbanceValue returns base for CONSTANT at every t, and for  *)
(* STEP returns base while (t mod period) < period/2 and base + amplitude  *)
(* otherwise, with period = 1/max(0.001, frequency); STEP(base 50,         *)
(* amplitude 100, frequency 0.1) gives 50 at t = 3 and 150 at t = 7.       *)
(***************************************************************************)
\* the period (ms) of a frequency (mHz) floored at 0.001 Hz
FlooredPeriod(frequency) == 1000000 \div (IF frequency < 1 THEN 1 ELSE frequency)

StepValue(t, config, period) ==
  IF 2 * (t % period) < period THEN config.base ELSE config.base + config.amplitude

\* what the claim states for a pattern of type CONSTANT or STEP
Waveform(t, config) ==
  IF config.type = "CONSTANT" THEN config.base
  ELSE StepValue(t, config, FlooredPeriod(config.frequency))

WaveformTypes == {"CONSTANT", "STEP"}

StepWaveformStep ==
  TickStep =>
    /\ activeDemandPattern.type \in WaveformTypes =>
         /\ probe'.demand = Waveform(time', activeDemandPattern)
         /\ LastRecord(history').flowOut = probe'.demand
    /\ activeSetpointPattern.type \in WaveformTypes =>
         /\ probe'.target = Waveform(time', activeSetpointPattern)
         /\ LastRecord(history').target = probe'.target
    /\ activeDemandPattern = InitialDemandPattern =>
         /\ time' = 3000 => probe'.demand = 50000
         /\ time' = 7000 => probe'.demand = 150000

StepWaveform == [][StepWaveformStep]_vars

\* the default demand STEP(50, 100, 0.1) evaluated at t = 7 gave 150
StepSecondHalfSeen ==
  /\ probe.kind = "tick"
  /\ activeDemandPattern = InitialDemandPattern
  /\ time = 7000
  /\ probe.demand = 150000
  /\ LastRecord(history).flowOut = 150000

\* the same with period = 1/frequency as the claim has it: at frequency 0
\* the period is infinite and a STEP never leaves base
RawPeriodValue(t, config) ==
  IF config.type = "CONSTANT" \/ config.frequency = 0 THEN config.base
  ELSE StepValue(t, config, 1000000 \div config.frequency)

StepWaveformRawPeriodStep ==
  TickStep =>
    /\ activeDemandPattern.type \in WaveformTypes =>
         probe'.demand = RawPeriodValue(time', activeDemandPattern)
    /\ activeSetpointPattern.type \in WaveformTypes =>
         probe'.target = RawPeriodValue(time', activeSetpointPattern)

StepWaveformRawPeriod == [][StepWaveformRawPeriodStep]_vars

(***************************************************************************)
(* C19  Under PID the unclamped output of a tick is Kp*error + Ki*integral *)
(* + Kd*derivative + 50, with Kp = 5 when the tank area is above 100 and 2 *)
(* otherwise, Ki = 0.5, Kd = 0.1, the integral being the accumulator after *)
(* this tick's update and the derivative (error - lastError)/DT; for area  *)
(* 200, error 10, integral 0 and derivative 0 the pump output is 100.      *)
(***************************************************************************)
PidLawStep ==
  (TickStep /\ Algorithm(deployedParadigm) = "PID") =>
    LET error == probe'.target - probe'.sensed
        Kp    == IF probe'.area > 100 THEN 5 ELSE 2
        \* Kd * derivative = 0.1 * (error - lastError) / 0.1
        dTerm == error - lastErrorRef
        \* what is left of the output for Ki * integral
        iTerm == probe'.raw - Kp * error - dTerm - 50 * Milli
    IN  /\ Abs(2 * iTerm - integralRef') <= 1
        /\ Abs(integralRef') <= 500 * Milli
        /\ Abs(10 * integralRef + error) <= 5000 * Milli =>
             Abs(10 * integralRef' - (10 * integralRef + error)) <= 5
        /\ lastErrorRef' = error
        /\ (/\ probe'.area = 200
            /\ error = 10 * Milli
            /\ integralRef' = 0
            /\ dTerm = 0)
             => /\ probe'.raw = 100 * Milli
                /\ probe'.pumpOutput = 100 * Milli

PidLaw == [][PidLawStep]_vars

\* the scenario of the claim happened in a tick of App.tsx: area 200, the
\* target 10 above the sensed level, the integral at 0 after its update
PidScenarioSeen ==
  /\ variant = "App"
  /\ probe.kind = "tick"
  /\ Algorithm(deployedParadigm) = "PID"
  /\ probe.area = 200
  /\ probe.target - probe.sensed = 10 * Milli
  /\ lastErrorRef = 10 * Milli
  /\ integralRef = 0
  /\ probe.raw = 100 * Milli
  /\ probe.pumpOutput = 100 * Milli

(***************************************************************************)
(* C20  The leak a tick subtracts from the net tank inflow is              *)
(* (value/10) * sqrt(max(0, level)) while the leakage fault is active, 20  *)
(* for value 20 at level 100, and 0 while it is inactive, whatever its     *)
(* value field holds.                                                      *)
(***************************************************************************)
\* root is the square root of x to within a few thousandths
NearSqrt(root, x) ==
  /\ Max2(0, root - 3) * Max2(0, root - 3) <= x
  /\ x <= (root + 3) * (root + 3)

LeakTermStep ==
  TickStep =>
    LET leak  == probe'.leak
        level == probe'.levelBefore
        fault == faults.leakage
    IN  /\ level = tankLevelRef
        /\ ~fault.active => leak = 0
        /\ (fault.active /\ fault.value = 0) => leak = 0
        /\ (fault.active /\ fault.value > 0) =>
             \* 10 * leak / value is sqrt(level), here in thousandths
             NearSqrt((10 * leak) \div fault.value, Max2(0, level) * 1000)
        /\ (fault.active /\ fault.value = 20 /\ level = 100 * Milli) =>
             leak = 20 * Milli
        /\ tankLevelRef' =
             Max2(0, level + LevelStep(probe'.tankInflow - probe'.demand - leak,
                                       probe'.area))

LeakTerm == [][LeakTermStep]_vars

\* a tick at level 100 with the leakage fault active at value 20 took 20 out
LeakScenarioSeen ==
  /\ probe.kind = "tick"
  /\ faults.leakage = [active |-> TRUE, value |-> 20]
  /\ probe.levelBefore = 100 * Milli
  /\ probe.leak = 20 * Milli
  /\ tankLevelRef =
       100 * Milli + LevelStep(probe.tankInflow - probe.demand - 20 * Milli,
                               probe.area)
  /\ tankLevelRef < 100 * Milli


(***************************************************************************)
(* C21  getDisturbanceValue divides by max(0.001, frequency), never by the *)
(* raw frequency: at frequency 0 (the default setpoint pattern) the period *)
(* is 1000 s, every deterministic waveform type returns a value within     *)
(* 2*amplitude of base, and CONSTANT, SINE and SQUARE return base.         *)
(***************************************************************************)
DeterministicTypes ==
  {"CONSTANT", "STEP", "RAMP", "SINE", "SQUARE", "TRIANGLE", "SAWTOOTH",
   "PULSE", "BURST"}

\* the value of config at t (ms) with the period of frequency 0, 1000 s;
\* the topology variant has no TRIANGLE and no SAWTOOTH case
ZeroFrequencyValue(t, config) ==
  LET base      == config.base
      amplitude == config.amplitude
      p         == (t % 1000000) \div 1000
      type      == IF variant = "Topology" /\ config.type \in {"TRIANGLE", "SAWTOOTH"}
                   THEN "CONSTANT" ELSE config.type
  IN  CASE type \in {"CONSTANT", "SINE", "SQUARE"} -> base
        [] type = "STEP" -> IF p < 500 THEN base ELSE base + amplitude
        [] type = "RAMP" -> base + (amplitude * p) \div 1000
        [] type = "TRIANGLE" ->
             base + (amplitude * (2 * Abs(2 * p - 1000) - 1000)) \div 1000
        [] type = "SAWTOOTH" -> base + (amplitude * (2 * p - 1000)) \div 1000
        [] type = "PULSE" -> IF p < 100 THEN base + amplitude ELSE base
        [] type = "BURST" ->
             IF t % 20000 > 18000 THEN base + 2 * amplitude ELSE base

ZeroFrequencyDefined(value, t, config) ==
  /\ value \in Int
  /\ Abs(value - config.base) <= 2 * Abs(config.amplitude)
  /\ Abs(value - ZeroFrequencyValue(t, config)) <= 1 + (4 * Abs(config.amplitude)) \div 1000
  /\ config.type \in {"CONSTANT", "SINE", "SQUARE"} => value = config.base

ZeroFrequencyStep ==
  TickStep =>
    /\ (activeSetpointPattern.frequency = 0
         /\ activeSetpointPattern.type \in DeterministicTypes) =>
         /\ ZeroFrequencyDefined(probe'.target, time', activeSetpointPattern)
         /\ LastRecord(history').target = probe'.target
    /\ (activeDemandPattern.frequency = 0
         /\ activeDemandPattern.type \in DeterministicTypes) =>
         ZeroFrequencyDefined(probe'.demand, time', activeDemandPattern)

ZeroFrequencyFinite == [][ZeroFrequencyStep]_vars

\* a SINE setpoint of frequency 0 and amplitude 10 evaluated at t = 600
ZeroFrequencySineSeen ==
  /\ probe.kind = "tick"
  /\ activeSetpointPattern.type = "SINE"
  /\ activeSetpointPattern.frequency = 0
  /\ activeSetpointPattern.amplitude = 10000
  /\ time = 600000
  /\ probe.target = activeSetpointPattern.base


(***************************************************************************)
(* C22  Under MPC, step i (0 <= i < 50) of the horizon projection of a     *)
(* tick uses the demand forecast at the current simulation time plus i*DT  *)
(* (the time before or after the tick's advance), and the unclamped output *)
(* is lastOutput + 2.0*(target - predicted level at the horizon end).      *)
(***************************************************************************)
\* the output of the law for a projection whose forecast starts at t0
MpcLawAt(t0, rnd) ==
  mpcStateRef.lastOut
  + Gain(20, probe'.target
             - MpcLookahead(0, PredictionHorizon, probe'.sensed, pipeBufferRef,
                            t0, activeDemandPattern,
                            TankArea(deployedParadigm), rnd))

MpcForecastStep ==
  (TickStep /\ variant = "App" /\ Algorithm(deployedParadigm) = "MPC") =>
    \E t0 \in {time, time'}, rnd \in RandSet : probe'.raw = MpcLawAt(t0, rnd)

MpcForecastAdvances == [][MpcForecastStep]_vars


(***************************************************************************)
(* C23  In the topology variant the delay buffer keeps its length of 500   *)
(* across ticks, and the tank inflow of a tick is the pump output pushed   *)
(* exactly delay/DT ticks earlier (0 where the run has no such tick).      *)
(***************************************************************************)
\* the pump output of the tick k ticks before the latest one of history h
OutputTicksEarlier(h, k) ==
  IF Len(h) > k THEN h[Len(h) - k].flowIn ELSE 0

TopoDelayStep ==
  (TickStep /\ variant = "Topology") =>
    LET delaySamples == NodeData(nodes, "PIPE", 5000) \div DT
    IN  /\ Len(pipeBufferRef') = TOPO_BUFFER_SIZE
        /\ probe'.tankInflow = OutputTicksEarlier(history', delaySamples)

TopoDelayExact == [][TopoDelayStep]_vars


(***************************************************************************)
(* C24  In each tick the level the controller sees is the true level plus  *)
(* the drift value when the sensor-drift fault is active (plus 0 when it   *)
(* is not) plus a noise term of magnitude at most 0.05; the true level is  *)
(* integrated from its own previous value, not from the sensed one, and    *)
(* changes only in a tick and in a reset.                                  *)
(***************************************************************************)
SensorDrift == IF faults.sensorDrift.active THEN faults.sensorDrift.value * Milli ELSE 0

SensorStep ==
  /\ TickStep =>
       /\ Abs(probe'.sensed - tankLevelRef - SensorDrift) <= 50
       /\ probe'.levelBefore = tankLevelRef
       /\ tankLevelRef' =
            Max2(0, tankLevelRef
                    + LevelStep(probe'.tankInflow - probe'.demand - probe'.leak,
                                probe'.area))
       /\ LastRecord(history').level = tankLevelRef'
  /\ tankLevelRef' # tankLevelRef => (TickStep \/ Reset)

SensorLeavesLevel == [][SensorStep]_vars

\* a tick that sensed the level through a drift of 50
DriftedLevelSensed ==
  /\ probe.kind = "tick"
  /\ probe.faults.sensorDrift.active
  /\ probe.faults.sensorDrift.value = 50
  /\ probe.sensed = probe.levelBefore + 50 * Milli
  /\ tankLevelRef # probe.sensed


(***************************************************************************)
(* C25  After every tick, whichever algorithm is active, lastError equals  *)
(* target minus sensed level of that tick, and the stored last output      *)
(* (mpcStateRef.lastOut) equals that tick's clamped pump output.           *)
(***************************************************************************)
\* the pump ceiling in force in the tick just taken
CeilingOfTick ==
  IF variant = "App" THEN MaxFlow(faults)
  ELSE TopoMaxFlow(NodeData(nodes, "PUMP", 100), faults)

ControllerMemoryStep ==
  TickStep =>
    /\ lastErrorRef' = probe'.target - probe'.sensed
    /\ mpcStateRef'.lastOut = probe'.pumpOutput
    /\ probe'.pumpOutput = Max2(0, Min2(CeilingOfTick, probe'.raw))
    /\ LastRecord(history').flowIn = mpcStateRef'.lastOut

ControllerMemory == [][ControllerMemoryStep]_vars

\* an MPC tick whose output was clamped, with an error to store
ClampedOutputStored ==
  /\ probe.kind = "tick"
  /\ variant = "App"
  /\ Algorithm(deployedParadigm) = "MPC"
  /\ probe.raw # probe.pumpOutput
  /\ mpcStateRef.lastOut = probe.pumpOutput
  /\ lastErrorRef = probe.target - probe.sensed
  /\ lastErrorRef # 0


(***************************************************************************)
(* C26  Under SMITH the pump output does not depend on the internal model  *)
(* level: for every modelLevel it is clamp(4*(target - sensedLevel) + 50,  *)
(* 0, maxFlow), the law of the topology variant's default branch applied   *)
(* to the sensed level.                                                    *)
(***************************************************************************)
\* model levels the law is evaluated at besides the one the tick used
ModelLevels == {0, InitialLevel, 2 * InitialLevel}

SmithLawStep ==
  (TickStep /\ variant = "App" /\ Algorithm(deployedParadigm) = "SMITH") =>
    LET error == probe'.target - probe'.sensed
        law   == (40 * error) \div 10 + 50 * Milli
    IN  /\ Abs(probe'.raw - law) <= 1
        /\ probe'.raw = TopoControl("SMITH", probe'.area, error, integralRef,
                                    lastErrorRef, mpcStateRef.lastOut)
        /\ probe'.pumpOutput = Max2(0, Min2(MaxFlow(faults), probe'.raw))
        /\ \A m \in ModelLevels \cup {smithStateRef.modelLevel,
                                       smithStateRef'.modelLevel} :
             SmithOutput(probe'.target, probe'.sensed, m) = probe'.raw

SmithIgnoresModel == [][SmithLawStep]_vars

\* a SMITH tick whose model level had left both the sensed and the true
\* level, with an output inside the pump limits
SmithModelOff ==
  /\ probe.kind = "tick"
  /\ variant = "App"
  /\ Algorithm(deployedParadigm) = "SMITH"
  /\ Abs(smithStateRef.modelLevel - probe.sensed) > 1000
  /\ Abs(smithStateRef.modelLevel - probe.levelBefore) > 1000
  /\ probe.pumpOutput = probe.raw
  /\ probe.raw = (40 * (probe.target - probe.sensed)) \div 10 + 50 * Milli


(***************************************************************************)
(* C27  If the simulation keeps ticking (weak fairness on the tick, the    *)
(* simulation running from some point on) and from some point on there is  *)
(* no reset and no deletion, every pending plan eventually is completed    *)
(* (or has been deleted).                                                  *)
(***************************************************************************)
\* the ids addPlan can hand out in one run
FairIds == 1..MaxFairOps

PlanPending(id) ==
  \E i \in DOMAIN plans : plans[i].id = id /\ plans[i].status = "pending"

PlanCompleted(id) ==
  \E i \in DOMAIN plans : plans[i].id = id /\ plans[i].status = "completed"

PlanDeleted(id) == \A i \in DOMAIN plans : plans[i].id # id

PendingPlansComplete ==
  (<>[]isRunning) =>
    \A id \in FairIds :
      [](PlanPending(id) => <>(PlanCompleted(id) \/ PlanDeleted(id)))

\* a plan queued behind a delay was completed by the tick that reached its
\* trigger, after a reset had taken the time back
PlanCompletedAfterReset ==
  /\ probe.kind = "tick"
  /\ \E i \in DOMAIN plans :
       /\ plans[i].id \in probe.fired
       /\ plans[i].status = "completed"
       /\ plans[i].triggerTime = time
       /\ plans[i].triggerTime >= 2 * DT
       /\ ticksLeft + (time \div DT) < FairTicks


(***************************************************************************)
(* C28  Whenever a response started by handleSendMessage is still in       *)
(* flight, isStreaming is true (the chat input stays disabled), also when  *)
(* sends issued by a plan firing, executeImmediate or deployParadigm       *)
(* overlap with each other or with a send of the user.                     *)
(***************************************************************************)
StreamingWhileInFlight == requests # {} => isStreaming


(***************************************************************************)
(* C29  A pending plan deleted from the queue is never fired by a later    *)
(* tick, and its deletion changes neither the status, the payload nor the  *)
(* relative order of any other plan, nor the active demand and setpoint    *)
(* patterns.                                                               *)
(***************************************************************************)
\* the queue ps without the position i
WithoutPosition(ps, i) ==
  [k \in 1..(Len(ps) - 1) |-> IF k < i THEN ps[k] ELSE ps[k + 1]]

DeletionStep ==
  /\ \A i \in DOMAIN plans :
       DeletePlan(plans[i].id) =>
         /\ plans' = WithoutPosition(plans, i)
         /\ \A k \in DOMAIN plans' : plans'[k].id # plans[i].id
         /\ activeDemandPattern' = activeDemandPattern
         /\ activeSetpointPattern' = activeSetpointPattern
         /\ applied' = applied
  /\ \A id \in DOMAIN applied :
       PlanDeleted(id) =>
         /\ PlanDeleted(id)'
         /\ applied'[id] = applied[id]
         /\ TickStep => id \notin probe'.fired

DeletedPlanNeverFires == [][DeletionStep]_vars

\* a plan deleted before it fired, another plan still queued, and the loop
\* has ticked since without firing anything
TickedAfterDeletion ==
  /\ probe.kind = "tick"
  /\ probe.fired = {}
  /\ time > loopTime
  /\ \E id \in DOMAIN applied : PlanDeleted(id) /\ applied[id] = 0
  /\ \E i \in DOMAIN plans : plans[i].status = "pending"


(***************************************************************************)
(* C30  In the topology variant the efficiency e (0..100) of the pump node *)
(* scales the maximum flow: in every tick the pump output is at most       *)
(* 250*(e/100), reduced further by the pump-efficiency fault factor while  *)
(* that fault is active, and is 0 when e = 0.                              *)
(***************************************************************************)
PumpNodes == {i \in DOMAIN nodes : nodes[i].type = "PUMP"}

\* the efficiency the inspector shows for the pump node the loop finds
PumpNodeEfficiency == nodes[CHOOSE i \in PumpNodes : \A j \in PumpNodes : i <= j].data

PumpEfficiencyStep ==
  (TickStep /\ variant = "Topology" /\ PumpNodes # {}) =>
    LET e    == PumpNodeEfficiency
        maxQ == (250 * Milli * e) \div 100
    IN  /\ probe'.pumpOutput <= maxQ
        /\ faults.pumpEfficiency.active =>
             probe'.pumpOutput <= (maxQ * (100 - faults.pumpEfficiency.value)) \div 100 + 1
        /\ e = 0 => probe'.pumpOutput = 0

PumpEfficiencyScalesFlow == [][PumpEfficiencyStep]_vars

=============================================================================
